---- MODULE Spec2Model ----
(***************************************************************************)
(* A model of the lattice symmetry pipeline of                             *)
(* algorithms/indexing/symmetry.py (candidate enumeration, per-candidate   *)
(* refinement, recommendation policy) and of the reflection matcher of     *)
(* array_family/flex.py (match_with_reference), and of the reindexing       *)
(* operator solver of command_line/reindex.py (derive_change_of_basis_op), *)
(* of find_matching_symmetry, of the reflection table selector of          *)
(* array_family/flex.py and of run_process of util/procrunner.py.          *)
(*                                                                         *)
(* Real quantities are scaled to integers: angles and correlation          *)
(* coefficients are in tenths (0.5 is 5), rmsd values are in arbitrary     *)
(* integer units, and a comparison rmsd > f * rmsd_p1 is evaluated as      *)
(* 2 * rmsd > (2 f) * rmsd_p1.  The source is Python 2 (xrange,            *)
(* iteritems, __builtin__): None orders below every number, and            *)
(* arithmetic on None raises TypeError.                                    *)
(***************************************************************************)
EXTENDS Integers, Sequences, FiniteSets, TLC

VARIABLES
  pc,            \* position of the factory / policy call
  error,         \* the exception that left the call, "none" if none
  enumeration,   \* what iotbx_converter yields: the candidate settings
  ncrystals,     \* len(experiments.crystals()) of the input
  isolated,      \* workers run in child processes (TRUE) or in this process
  cfg_iqr,       \* the configured tukey iqr_multiplier on entry
  Lfat,          \* the refined_settings_list
  params_iqr,    \* params.refinement.reflections.outlier.tukey.iqr_multiplier
  expt_crystal,  \* the crystal held by the caller's experiment list
  completed,     \* worker results, in completion order
  calls,         \* the calls made to the refinement service, in order
  identify_ran,  \* identify_likely_solutions was entered
  summary,       \* what as_dict or labelit_printout rendered, <<>> before
  mpc,           \* position of the match_with_reference call
  self_rows,     \* the self reflection table
  other_rows,    \* the other reflection table
  match,         \* what match_with_reference computed
  rpc,           \* position of the derive_change_of_basis_op call
  from_hkl,      \* the Miller indices in the first indexing
  to_hkl,        \* the Miller indices of the same rows in the second
  derived,       \* what derive_change_of_basis_op computed
  logger_disabled,  \* logging.getLogger().disabled
  fpc,           \* position of the find_matching_symmetry call
  subgroups,     \* the subgroups of the lattice group, as enumerated
  target_bravais_t,  \* the Bravais type of the target space group
  best_subgroup, \* what find_matching_symmetry computed
  spc,           \* position of the reflection_table_selector call
  reflections,   \* the table the selector is called on
  selector,      \* the selector's column, op and value
  selected,      \* what the selector's __call__ computed
  main,          \* position of the thread that called run_process
  child,         \* the external process
  returncode,    \* p.returncode
  stream,        \* per stream: what the child still writes, and the pipe
  reader,        \* per stream: the _NonBlockingStreamReader and its thread
  callbacks,     \* per stream: the lines passed to the callback, in order
  notified,      \* per stream: notifier.close() was called
  thread_pipe_pool,  \* the streams whose notification is still awaited
  timeout,       \* the timeout argument is not None
  expired,       \* timeit.default_timer() has reached max_time
  timeout_encountered,
  signals,       \* the signals sent to the child, in order
  run_result,    \* the dictionary run_process returned, or the exception
  loop_end       \* the child and p.returncode when the wait loop was left

symVars == <<pc, error, enumeration, ncrystals, isolated, cfg_iqr, Lfat,
             params_iqr, expt_crystal, completed, calls, identify_ran,
             summary, logger_disabled>>
matchVars == <<mpc, self_rows, other_rows, match>>
reindexVars == <<rpc, from_hkl, to_hkl, derived>>
findVars == <<fpc, subgroups, target_bravais_t, best_subgroup>>
selectorVars == <<spc, reflections, selector, selected>>
procVars == <<main, child, returncode, stream, reader, callbacks, notified,
              thread_pipe_pool, timeout, expired, timeout_encountered,
              signals, run_result, loop_end>>
restVars == <<findVars, selectorVars, procVars>>
vars == <<symVars, matchVars, reindexVars, restVars>>

(***************************************************************************)
(* Bounds of the model.                                                    *)
(***************************************************************************)
MaxCand == 2       \* candidates yielded by the enumeration
MaxSettings == 2   \* entries of a refined list given to the policy
MaxSelf == 2       \* rows of the self table
MaxOther == 2      \* rows of the other table
MaxPairs == 4      \* rows of from_hkl and to_hkl

(***************************************************************************)
(* Python values.                                                          *)
(***************************************************************************)
None == -1

\* Python 2 ordering: None is smaller than every number.
PyLt(a, b) ==
  IF a = None THEN b # None
  ELSE IF b = None THEN FALSE
  ELSE a < b

(***************************************************************************)
(* What the variables of find_matching_symmetry, of the reflection table   *)
(* selector and of run_process hold in the specifications of the other     *)
(* components.                                                             *)
(***************************************************************************)
\* best_subgroup = None
NoSubgroup ==
  [i_subgr |-> 0, max_angular_difference |-> None, cb_op_inp_best |-> "none"]

NothingFound == [raised |-> "none", perm |-> <<>>, best |-> NoSubgroup]

FindIdle ==
  /\ fpc = "idle"
  /\ subgroups = <<>>
  /\ target_bravais_t = "none"
  /\ best_subgroup = NothingFound

NothingSelected == [raised |-> "none", mask |-> <<>>]

SelectorIdle ==
  /\ spc = "idle"
  /\ reflections = <<>>
  /\ selector = [column |-> "none", op |-> "none", value |-> 0]
  /\ selected = NothingSelected

\* p.stdout and p.stderr
Streams == {"stdout", "stderr"}

\* _NonBlockingStreamReader.__init__: the StringIO buffer, the three flags,
\* the thread not started yet ("new") and its line aggregator's buffer;
\* data is what get_output returned.
NewReader ==
  [thread |-> "new", buffer |-> <<>>, la |-> <<>>, closing |-> FALSE,
   terminated |-> FALSE, closed |-> FALSE, data |-> <<>>]

\* The thread in run_process: the statement it is at and, inside
\* get_output, the stream whose reader it is called on.
At(statement, s) == [at |-> statement, of |-> s]

NoResult == [kind |-> "none"]
NoLoopEnd == [left |-> FALSE, running |-> FALSE, returncode |-> None]

ProcIdle ==
  /\ main = At("idle", "none")
  /\ child = [state |-> "unstarted", status |-> None, holds |-> FALSE]
  /\ returncode = None
  /\ stream = [s \in Streams |-> [towrite |-> <<>>, pipe |-> <<>>]]
  /\ reader = [s \in Streams |-> NewReader]
  /\ callbacks = [s \in Streams |-> <<>>]
  /\ notified = [s \in Streams |-> FALSE]
  /\ thread_pipe_pool = <<>>
  /\ timeout = FALSE
  /\ expired = FALSE
  /\ timeout_encountered = FALSE
  /\ signals = <<>>
  /\ run_result = NoResult
  /\ loop_end = NoLoopEnd

RestIdle == FindIdle /\ SelectorIdle /\ ProcIdle

(***************************************************************************)
(* RecommendationPolicy: identify_likely_solutions.                        *)
(***************************************************************************)
MadCut == 5              \* max_angular_difference < 0.5
CcLowMad == 5            \* min_cc < 0.5
CcHighMad == 7           \* min_cc < 0.7
TwiceFactorLowMad == 3   \* rmsd > 1.5 * rmsd_p1
TwiceFactorHighMad == 4  \* rmsd > 2.0 * rmsd_p1
TwiceFactorAny == 6      \* rmsd > 3 * rmsd_p1

\* solution.rmsd > f * rmsd_p1 for a numeric rmsd_p1 (twice_f is 2 f).
RmsdExceeds(rmsd, twice_f, rmsd_p1) ==
  IF rmsd = None THEN FALSE ELSE 2 * rmsd > twice_f * rmsd_p1

\* The same comparisons with <= on the correlation coefficient.
VerdictNonStrict(solution, rmsd_p1) ==
  IF solution.mad < MadCut
  THEN IF solution.min_cc = None \/ solution.min_cc <= CcLowMad
       THEN IF rmsd_p1 = None THEN "TypeError"
            ELSE IF RmsdExceeds(solution.rmsd, TwiceFactorLowMad, rmsd_p1)
                 THEN "false" ELSE "true"
       ELSE "true"
  ELSE IF rmsd_p1 = None THEN "TypeError"
       ELSE IF (solution.min_cc = None \/ solution.min_cc <= CcHighMad)
               /\ RmsdExceeds(solution.rmsd, TwiceFactorHighMad, rmsd_p1)
            THEN "false"
            ELSE IF RmsdExceeds(solution.rmsd, TwiceFactorAny, rmsd_p1)
                 THEN "false" ELSE "true"

\* The two rmsd factors exchanged: 2.0 for the low-distortion settings and
\* 1.5 for the others.
VerdictSwappedFactors(solution, rmsd_p1) ==
  IF PyLt(solution.mad, MadCut)
  THEN IF PyLt(solution.min_cc, CcLowMad)
       THEN IF rmsd_p1 = None THEN "TypeError"
            ELSE IF RmsdExceeds(solution.rmsd, TwiceFactorHighMad, rmsd_p1)
                 THEN "false" ELSE "true"
       ELSE "true"
  ELSE IF PyLt(solution.min_cc, CcHighMad)
       THEN IF rmsd_p1 = None THEN "TypeError"
            ELSE IF RmsdExceeds(solution.rmsd, TwiceFactorLowMad, rmsd_p1)
                 THEN "false"
                 ELSE IF RmsdExceeds(solution.rmsd, TwiceFactorAny, rmsd_p1)
                      THEN "false" ELSE "true"
       ELSE IF rmsd_p1 = None THEN "TypeError"
            ELSE IF RmsdExceeds(solution.rmsd, TwiceFactorAny, rmsd_p1)
                 THEN "false" ELSE "true"

\* One pass of the loop body: "true"/"false" is the value recommended ends
\* with; "TypeError" is the multiplication of a number by a None rmsd_p1,
\* which the short-circuit `and` reaches only when its left side is true.
Verdict(solution, rmsd_p1) ==
  IF PyLt(solution.mad, MadCut)
  THEN IF PyLt(solution.min_cc, CcLowMad)
       THEN IF rmsd_p1 = None THEN "TypeError"
            ELSE IF RmsdExceeds(solution.rmsd, TwiceFactorLowMad, rmsd_p1)
                 THEN "false" ELSE "true"
       ELSE "true"
  ELSE IF PyLt(solution.min_cc, CcHighMad)
       THEN IF rmsd_p1 = None THEN "TypeError"
            ELSE IF RmsdExceeds(solution.rmsd, TwiceFactorHighMad, rmsd_p1)
                 THEN "false"
                 ELSE IF RmsdExceeds(solution.rmsd, TwiceFactorAny, rmsd_p1)
                      THEN "false" ELSE "true"
       ELSE IF rmsd_p1 = None THEN "TypeError"
            ELSE IF RmsdExceeds(solution.rmsd, TwiceFactorAny, rmsd_p1)
                 THEN "false" ELSE "true"

\* for solution in all_solutions: ... from entry j on.  An exception leaves
\* the entries before j decided, entry j with recommended False and the
\* entries after j untouched.
RECURSIVE IdentifyLoop(_, _, _)
IdentifyLoop(all_solutions, j, rmsd_p1) ==
  IF j > Len(all_solutions)
  THEN [settings |-> all_solutions, raised |-> "none"]
  ELSE LET v == Verdict(all_solutions[j], rmsd_p1) IN
       IF v = "TypeError"
       THEN [settings |-> [all_solutions EXCEPT ![j].recommended = "false"],
             raised |-> "TypeError"]
       ELSE IdentifyLoop([all_solutions EXCEPT ![j].recommended = v],
                         j + 1, rmsd_p1)

identify_likely_solutions(all_solutions) ==
  LET p1_solution == all_solutions[Len(all_solutions)] IN
  IF p1_solution.setting_number # 1
  THEN [settings |-> all_solutions, raised |-> "AssertionError"]
  ELSE IdentifyLoop(all_solutions, 1, p1_solution.rmsd)

(***************************************************************************)
(* SubgroupEnumerator and SettingRefiner:                                  *)
(* refined_settings_factory_from_refined_triclinic and refine_subgroup.    *)
(***************************************************************************)
Identity == "a,b,c"

\* What iotbx_converter can yield for one candidate (external service):
\* the change-of-basis operator, the Bravais type and the metric fit.
CandidateKinds ==
  { [cb_op |-> "a,b,c", bravais |-> "aP", mad |-> 0],
    [cb_op |-> "a,b,c", bravais |-> "mP", mad |-> 4],
    [cb_op |-> "b,c,a", bravais |-> "mC", mad |-> 5] }

Enumerations ==
  UNION {[1..n -> CandidateKinds] : n \in 1..MaxCand}

OrigCrystal == 0

\* Lfat[j].unrefined_crystal: the input crystal constrained to the candidate's
\* system, in the lowest space group of its Bravais type.  For the identity
\* operator in aP this is the input crystal's own model.
UnrefinedCrystal(kind, setting_number) ==
  IF kind.cb_op = Identity /\ kind.bravais = "aP"
  THEN OrigCrystal ELSE setting_number

\* bravais_setting(item), then setting_number = Nset - j (0-based j), then the
\* unrefined crystal.  Attributes refine_subgroup has not set yet are None,
\* refined_experiments and refined_crystal "absent"; recommended is "unset".
NewSetting(kind, setting_number) ==
  [ setting_number |-> setting_number,
    cb_op |-> kind.cb_op,
    bravais |-> kind.bravais,
    mad |-> kind.mad,
    unrefined_crystal |-> UnrefinedCrystal(kind, setting_number),
    rmsd |-> None,
    Nmatches |-> None,
    refined_experiments |-> "absent",
    refined_crystal |-> "absent",
    max_cc |-> None,
    min_cc |-> None,
    recommended |-> "unset" ]

\* The numbering reversed: setting_number = j + 1.
SettingNumberAscending(Nset, j) == j

\* Lfat[j].setting_number = Nset - j for j in xrange(Nset); j here is 1-based.
SettingNumber(Nset, j) == Nset - (j - 1)

\* refined_settings_list.supergroup(): self[0]
supergroup(settings) == settings[1]

\* The first entry is taken for the triclinic one.
FirstEntry(settings) == settings[1]

\* refined_settings_list.triclinic(): self[-1]
triclinic(settings) == settings[Len(settings)]

BuildLfat(enum) ==
  [j \in 1..Len(enum) |-> NewSetting(enum[j], SettingNumber(Len(enum), j))]

\* The refinement service (external): each call returns or raises.
G0Message == "scitbx Error: g0 - astry*astry -astrz*astrz <= 0."
G1Message == "scitbx Error: g1-bstrz*bstrz <= 0."
OtherMessage == "other"

NoExc == [type |-> "none", msg |-> "none"]

ServiceErrors ==
  { [type |-> "RuntimeError", msg |-> G0Message],
    [type |-> "RuntimeError", msg |-> G1Message],
    [type |-> "RuntimeError", msg |-> OtherMessage],
    [type |-> "ValueError", msg |-> G0Message] }

\* What a successful second pass leaves to work on: the rmsd, whether the
\* reflections carry 'intensity.sum.value', and what
\* get_symop_correlation_coefficients returns on them, one coefficient and
\* one pair count per symmetry operator of the refined space group, the
\* identity first (coefficients in tenths).
ServiceFits ==
  { [rmsd |-> 2, intensities |-> FALSE, ccs |-> <<>>, nrefs |-> <<>>],
    [rmsd |-> 2, intensities |-> TRUE, ccs |-> <<10>>, nrefs |-> <<20>>],
    [rmsd |-> 7, intensities |-> TRUE,
     ccs |-> <<10, 4, 9>>, nrefs |-> <<20, 11, 10>>],
    [rmsd |-> 7, intensities |-> TRUE,
     ccs |-> <<10, 8, 4>>, nrefs |-> <<20, 12, 11>>] }

MinPairs == 10   \* nrefs > 10

\* ccs.select(nrefs > 10)
Retained(ccs, nrefs) ==
  LET kept == SelectSeq([n \in 1..Len(ccs) |-> n],
                        LAMBDA n : nrefs[n] > MinPairs)
  IN [k \in 1..Len(kept) |-> ccs[kept[k]]]

\* The first retained coefficient is summarised with the others.
Whole(ccs) == ccs

\* ccs[1:]
Rest(ccs) == Tail(ccs)

FlexMax(a) == CHOOSE x \in {a[n] : n \in 1..Len(a)} :
                \A n \in 1..Len(a) : a[n] <= x
FlexMin(a) == CHOOSE x \in {a[n] : n \in 1..Len(a)} :
                \A n \in 1..Len(a) : x <= a[n]

\* Lines 194-195 and 232-249: max_cc and min_cc as refine_subgroup leaves
\* them after a refinement that returned.
CcSummary(fit) ==
  IF ~fit.intensities THEN [max_cc |-> None, min_cc |-> None]
  ELSE LET ccs == Retained(fit.ccs, fit.nrefs) IN
       IF Len(ccs) > 1
       THEN [max_cc |-> FlexMax(Rest(ccs)), min_cc |-> FlexMin(Rest(ccs))]
       ELSE [max_cc |-> None, min_cc |-> None]

NoFit == [rmsd |-> None, min_cc |-> None]

\* A refinement that raised leaves nothing to summarise.
Unfitted == [rmsd |-> None, intensities |-> FALSE, ccs |-> <<>>, nrefs |-> <<>>]

\* What the service does to one candidate: pass two runs only if pass one
\* returned, and there is a fit only if both returned.
ServiceRuns ==
  { [pass1 |-> e, pass2 |-> NoExc, ran2 |-> FALSE, fit |-> Unfitted] :
      e \in ServiceErrors }
  \cup { [pass1 |-> NoExc, pass2 |-> e, ran2 |-> TRUE, fit |-> Unfitted] :
      e \in ServiceErrors }
  \cup { [pass1 |-> NoExc, pass2 |-> NoExc, ran2 |-> TRUE, fit |-> f] :
      f \in ServiceFits }

RunError(run) == IF run.pass1 # NoExc THEN run.pass1 ELSE run.pass2

\* Every RuntimeError is taken for a degenerate geometry.
RecognizedAnyRuntimeError(e) == e.type = "RuntimeError"

\* except RuntimeError as e: if str(e) == ... or str(e) == ...
Recognized(e) ==
  /\ e.type = "RuntimeError"
  /\ e.msg = G0Message \/ e.msg = G1Message

\* Recognized errors are re-raised like the others.
PropagatesAlways(e) == e # NoExc

\* The exception leaves refine_subgroup: not a RuntimeError, or `else: raise`.
Propagates(e) == e # NoExc /\ ~Recognized(e)

\* The subgroup as refine_subgroup leaves it.
RefinedSetting(subgroup, run) ==
  LET e == RunError(run) IN
  IF e = NoExc
  THEN [subgroup EXCEPT !.rmsd = run.fit.rmsd,
                        !.Nmatches = 12,
                        !.refined_experiments = "experiments",
                        !.refined_crystal = "crystal",
                        !.max_cc = CcSummary(run.fit).max_cc,
                        !.min_cc = CcSummary(run.fit).min_cc]
  ELSE IF Recognized(e)
  THEN [subgroup EXCEPT !.rmsd = None,
                        !.Nmatches = None,
                        !.refined_experiments = "None",
                        !.max_cc = None,
                        !.min_cc = None]
  ELSE [subgroup EXCEPT !.max_cc = None, !.min_cc = None]

\* The calls refine_subgroup makes to refine(): the multiplier each call
\* finds in params and the experiments it is given.
RefineCalls(task, iqr_multiplier, run) ==
  <<[task |-> task, pass |-> 1, iqr |-> 2 * iqr_multiplier,
     experiments |-> "input"]>>
  \o (IF run.ran2
      THEN <<[task |-> task, pass |-> 2, iqr |-> iqr_multiplier,
              experiments |-> "pass1"]>>
      ELSE <<>>)

\* params...iqr_multiplier when refine_subgroup is left: the assignment that
\* restores it stands between the two calls.
IqrOnExit(iqr_multiplier, run) ==
  IF run.pass1 = NoExc THEN iqr_multiplier ELSE 2 * iqr_multiplier

\* disabled = logger.disabled; logger.disabled = True; ... finally:
\* logger.disabled = disabled
LoggerOnExit(disabled, run) == disabled

\* for expt in experiments: expt.crystal = unrefined_crystal
CrystalOnExit(crystal, subgroup) == subgroup.unrefined_crystal

\* used_reflections = copy.deepcopy(used_reflections): the reindexed Miller
\* indices are written to the copy.
MillerOnExit(miller, subgroup) == miller

Tasks == 1..Len(Lfat)
Done(task) == \E k \in 1..Len(completed) : completed[k].task = task
SomeRaised == \E k \in 1..Len(completed) : completed[k].kind = "raised"

\* The results in the order the workers finished.
CompletionOrderResults(done) ==
  [i \in 1..Len(done) |-> done[i].subgroup]

\* easy_mp.parallel_map(..., preserve_order=True): result i is task i's.
OrderedResults(done) ==
  [i \in 1..Len(done) |->
     done[CHOOSE k \in 1..Len(done) : done[k].task = i].subgroup]

(***************************************************************************)
(* ReflectionMatcher: reflection_table.match_with_reference.  Rows are      *)
(* numbered from 1 here and from 0 in the source.                          *)
(***************************************************************************)
\* The entering flag is left out of the key.
KeyWithoutEntering(row) ==
  <<row.hkl[1], row.hkl[2], row.hkl[3], 0, row.id, row.panel>>

\* The lookup key: h1[i] + (e1[i], i1[i], p1[i]).
Key(row) ==
  <<row.hkl[1], row.hkl[2], row.hkl[3], row.entering, row.id, row.panel>>

\* lookup[item].a, or .b: the rows of a table with that key, ascending.
IndicesWith(rows, item) ==
  SelectSeq([i \in 1..Len(rows) |-> i], LAMBDA i : Key(rows[i]) = item)

\* dx**2 + dy**2 + dz**2 on xyzcal.px
Dist2(s, o) ==
  (s.xyz[1] - o.xyz[1]) * (s.xyz[1] - o.xyz[1])
  + (s.xyz[2] - o.xyz[2]) * (s.xyz[2] - o.xyz[2])
  + (s.xyz[3] - o.xyz[3]) * (s.xyz[3] - o.xyz[3])

\* The farthest candidate instead of the nearest.
RECURSIVE PyMax(_)
PyMax(d) ==
  IF Len(d) = 1 THEN d[1]
  ELSE LET m == PyMax(Tail(d)) IN
       IF m[3] > d[1][3] THEN m ELSE d[1]

\* __builtin__.min(d, key=lambda x: x[2]): the first of the smallest.
RECURSIVE PyMin(_)
PyMin(d) ==
  IF Len(d) = 1 THEN d[1]
  ELSE LET m == PyMin(Tail(d)) IN
       IF m[3] < d[1][3] THEN m ELSE d[1]

\* A later self row at the same distance takes the other row over.
DisplacesOnTie(d, held) == d <= held

\* elif d < matched[j][1]
Displaces(d, held) == d < held

\* for i in value.a: ... from the k-th self row of the key on; matched maps
\* an other row j to (i, d).
RECURSIVE BuildMatched(_, _, _, _, _, _)
BuildMatched(S, O, a, b, k, matched) ==
  IF k > Len(a) THEN matched
  ELSE LET i == a[k]
           d == [n \in 1..Len(b) |-> <<i, b[n], Dist2(S[i], O[b[n]])>>]
           m == PyMin(d)
           j == m[2]
           next ==
             IF j \notin DOMAIN matched
             THEN matched @@ (j :> <<i, m[3]>>)
             ELSE IF Displaces(m[3], matched[j][2])
                  THEN [matched EXCEPT ![j] = <<i, m[3]>>]
                  ELSE matched
       IN BuildMatched(S, O, a, b, k + 1, next)

\* The (self, other) pairs one key adds to match1/match2.  jorder is the
\* order in which a dict of other rows is iterated.
KeyPairs(S, O, item, jorder) ==
  LET a == IndicesWith(S, item)
      b == IndicesWith(O, item)
  IN IF Len(b) = 0 THEN <<>>
     ELSE IF Len(a) = 1 /\ Len(b) = 1 THEN << <<a[1], b[1]>> >>
     ELSE LET matched == BuildMatched(S, O, a, b, 1, <<>>)
              js == SelectSeq(jorder, LAMBDA j : j \in DOMAIN matched)
          IN [n \in 1..Len(js) |-> <<matched[js[n]][1], js[n]>>]

\* for item, value in lookup.iteritems(): ... in the order korder.
RECURSIVE AllPairs(_, _, _, _)
AllPairs(S, O, korder, jorder) ==
  IF korder = <<>> THEN <<>>
  ELSE KeyPairs(S, O, Head(korder), jorder)
       \o AllPairs(S, O, Tail(korder), jorder)

\* The pairs are left in the order the dicts were iterated in.
Unsorted(pairs) == pairs

\* The pairs are sorted by descending self index.
RECURSIVE SortBySelfDescending(_)
SortBySelfDescending(pairs) ==
  IF pairs = <<>> THEN <<>>
  ELSE LET rest == SortBySelfDescending(Tail(pairs))
           p == Head(pairs)
           before == SelectSeq(rest, LAMBDA q : q[1] > p[1])
           after == SelectSeq(rest, LAMBDA q : q[1] <= p[1])
       IN before \o <<p>> \o after

\* sorted(range(len(sind)), key=lambda x: sind[x]): stable, by self index.
RECURSIVE SortBySelf(_)
SortBySelf(pairs) ==
  IF pairs = <<>> THEN <<>>
  ELSE LET rest == SortBySelf(Tail(pairs))
           p == Head(pairs)
           before == SelectSeq(rest, LAMBDA q : q[1] < p[1])
           after == SelectSeq(rest, LAMBDA q : q[1] >= p[1])
       IN before \o <<p>> \o after

DistanceCut == 2   \* mask = distance < 2

\* A pair exactly at the threshold is accepted too.
WithinCutOrAt(d2) == d2 <= DistanceCut * DistanceCut

\* distance < 2, on the squared distance.
WithinCut(d2) == d2 < DistanceCut * DistanceCut

\* array.select(mask) for a boolean mask.
SelectMask(array, mask) ==
  LET kept == SelectSeq([n \in 1..Len(array) |-> n], LAMBDA n : mask[n])
  IN [n \in 1..Len(kept) |-> array[kept[n]]]

\* table.get_flags(flag), on the flags column.
get_flags(column, flag) == [n \in 1..Len(column) |-> flag \in column[n]]

\* table.set_flags(selection, flag), on the flags column.
set_flags(column, selection, flag) ==
  [i \in 1..Len(column) |->
     IF \E n \in 1..Len(selection) : selection[n] = i
     THEN column[i] \cup {flag} ELSE column[i]]

\* No other row is taken out of the unmatched ones.
NothingCleared(n, other_matched_indices) == [j \in 1..n |-> TRUE]

\* other_unmatched_mask: flex.bool(len(other), True), then set_selected(
\* other_matched_indices, False).
OtherUnmatchedMask(n, other_matched_indices) ==
  [j \in 1..n |->
     \A k \in 1..Len(other_matched_indices) : other_matched_indices[k] # j]

\* Everything match_with_reference computes from the two tables; flags is
\* the flags column of self after the four set_flags calls.
MatchWithReference(S, O, korder, jorder) ==
  LET pairs == SortBySelf(AllPairs(S, O, korder, jorder))
      sind == [n \in 1..Len(pairs) |-> pairs[n][1]]
      oind == [n \in 1..Len(pairs) |-> pairs[n][2]]
      asserted ==
        \A n \in 1..Len(pairs) :
          /\ S[sind[n]].hkl = O[oind[n]].hkl
          /\ S[sind[n]].entering = O[oind[n]].entering
      mask == [n \in 1..Len(pairs) |->
                 WithinCut(Dist2(S[sind[n]], O[oind[n]]))]
      o2flags == [n \in 1..Len(pairs) |-> O[oind[n]].flags]
      flags0 == [i \in 1..Len(S) |-> S[i].flags]
      flags1 == set_flags(flags0, SelectMask(sind, mask), "reference_spot")
      flags2 == set_flags(flags1, SelectMask(sind, get_flags(o2flags, "strong")),
                          "strong")
      flags3 == set_flags(flags2, SelectMask(sind, get_flags(o2flags, "indexed")),
                          "indexed")
      flags4 == set_flags(flags3,
                          SelectMask(sind, get_flags(o2flags, "used_in_refinement")),
                          "used_in_refinement")
      other_matched_indices == SelectMask(oind, mask)
      other_unmatched_mask == OtherUnmatchedMask(Len(O), other_matched_indices)
  IN [ raised |-> IF asserted THEN "none" ELSE "AssertionError",
       sind |-> sind,
       oind |-> oind,
       mask |-> mask,
       flags |-> IF asserted THEN flags4 ELSE flags0,
       other_matched |-> other_matched_indices,
       other_unmatched |->
         SelectMask([j \in 1..Len(O) |-> j], other_unmatched_mask),
       mask2 |-> [i \in 1..Len(S) |->
                    \E n \in 1..Len(pairs) : mask[n] /\ sind[n] = i] ]

\* other_matched = other.select(other_matched_indices) and, in
\* match_with_reference only, `for key, column in self.select(sind.select(
\* mask)).cols(): other_matched[key] = column`: every column the two tables
\* share then holds the values of the paired self rows, the flags as the
\* four set_flags calls left them.
OtherMatched(S, O, m, copying) ==
  LET accepted == SelectMask(m.sind, m.mask) IN
  IF copying
  THEN [n \in 1..Len(accepted) |->
          [S[accepted[n]] EXCEPT !.flags = m.flags[accepted[n]]]]
  ELSE [n \in 1..Len(m.other_matched) |-> O[m.other_matched[n]]]

\* What a call leaves in `match`: what it computed, which of the two
\* methods it was, and the rows of the other_matched table it returns.
Returned(S, O, m, copying) ==
  [ raised |-> m.raised, sind |-> m.sind, oind |-> m.oind, mask |-> m.mask,
    flags |-> m.flags, other_matched |-> m.other_matched,
    other_unmatched |-> m.other_unmatched, mask2 |-> m.mask2,
    copying |-> copying,
    other_matched_rows |->
      IF m.raised = "none" THEN OtherMatched(S, O, m, copying) ELSE <<>> ]

NoMatch ==
  [raised |-> "none", sind |-> <<>>, oind |-> <<>>, mask |-> <<>>,
   flags |-> <<>>, other_matched |-> <<>>, other_unmatched |-> <<>>,
   mask2 |-> <<>>, copying |-> FALSE, other_matched_rows |-> <<>>]

\* The rows the tables are drawn from: one key at three calculated
\* centroids (squared distances 0, 1 and 4 between them) and a second key,
\* with the other entering flag, at one.
MainKey == [hkl |-> <<1, 0, 0>>, entering |-> 1, id |-> 0, panel |-> 0]
SideKey == [hkl |-> <<1, 0, 0>>, entering |-> 0, id |-> 0, panel |-> 0]

Points == { <<0, 0, 0>>, <<1, 0, 0>>, <<2, 0, 0>> }

Row(k, p) ==
  [hkl |-> k.hkl, entering |-> k.entering, id |-> k.id, panel |-> k.panel,
   xyz |-> p, flags |-> {}]

Rows == {Row(MainKey, p) : p \in Points} \cup {Row(SideKey, <<0, 0, 0>>)}

Tables(max) == UNION {[1..n -> Rows] : n \in 0..max}

\* The flags a row of the other table carries on entry, one combination
\* per centroid; the rows of self carry none of the four.
FlagsAt(xyz) ==
  IF xyz = <<0, 0, 0>> THEN {}
  ELSE IF xyz = <<1, 0, 0>> THEN {"strong"}
  ELSE {"strong", "indexed", "used_in_refinement"}

\* The table with its flags column replaced.
WithColumn(table, column) ==
  [n \in 1..Len(table) |-> [table[n] EXCEPT !.flags = column[n]]]

WithFlags(table) ==
  [n \in 1..Len(table) |-> [table[n] EXCEPT !.flags = FlagsAt(table[n].xyz)]]

Perms(set) ==
  { f \in [1..Cardinality(set) -> set] :
      \A x, y \in 1..Cardinality(set) : x # y => f[x] # f[y] }

InitMatch ==
  /\ mpc = "call"
  /\ self_rows \in Tables(MaxSelf)
  /\ \E table \in Tables(MaxOther) : other_rows = WithFlags(table)
  /\ match = NoMatch
  /\ pc = "idle"
  /\ error = "none"
  /\ enumeration = <<>>
  /\ ncrystals = 1
  /\ isolated = FALSE
  /\ cfg_iqr = 3
  /\ Lfat = <<>>
  /\ params_iqr = cfg_iqr
  /\ expt_crystal = OrigCrystal
  /\ completed = <<>>
  /\ calls = <<>>
  /\ identify_ran = FALSE
  /\ summary = <<>>
  /\ logger_disabled = FALSE
  /\ RestIdle
  /\ rpc = "idle"
  /\ from_hkl = <<>>
  /\ to_hkl = <<>>
  /\ derived = [raised |-> "none", stage |-> "none", sel |-> <<>>,
                fit |-> <<>>, r |-> <<>>, op |-> <<>>]

\* self.match_with_reference(other), lines 488-596; the two dict iteration
\* orders are not fixed by the language.
match_with_reference ==
  /\ mpc = "call"
  /\ \E korder \in Perms({Key(self_rows[i]) : i \in 1..Len(self_rows)}),
        jorder \in Perms(1..Len(other_rows)) :
       match' = Returned(self_rows, other_rows,
                         MatchWithReference(self_rows, other_rows, korder,
                                            jorder), TRUE)
  /\ mpc' = IF match'.raised = "none" THEN "matched" ELSE "raised"
  /\ self_rows' = WithColumn(self_rows, match'.flags)
  /\ UNCHANGED other_rows
  /\ UNCHANGED <<symVars, reindexVars, restVars>>

\* self.match_with_reference_without_copying_columns(other), lines 380-486:
\* the same statements without the copy of self's columns to other_matched.
match_with_reference_without_copying_columns ==
  /\ mpc = "call"
  /\ \E korder \in Perms({Key(self_rows[i]) : i \in 1..Len(self_rows)}),
        jorder \in Perms(1..Len(other_rows)) :
       match' = Returned(self_rows, other_rows,
                         MatchWithReference(self_rows, other_rows, korder,
                                            jorder), FALSE)
  /\ mpc' = IF match'.raised = "none" THEN "matched" ELSE "raised"
  /\ self_rows' = WithColumn(self_rows, match'.flags)
  /\ UNCHANGED other_rows
  /\ UNCHANGED <<symVars, reindexVars, restVars>>

NextMatch ==
  \/ match_with_reference
  \/ match_with_reference_without_copying_columns

SpecMatch == InitMatch /\ [][NextMatch]_vars

(***************************************************************************)
(* The matcher is idle in the specifications of the symmetry pipeline.     *)
(***************************************************************************)

MatchIdle ==
  /\ mpc = "idle"
  /\ self_rows = <<>>
  /\ other_rows = <<>>
  /\ match = NoMatch

(***************************************************************************)
(* So is the solver, in those and in the matcher's.                        *)
(***************************************************************************)
NoDerivation ==
  [raised |-> "none", stage |-> "none", sel |-> <<>>, fit |-> <<>>,
   r |-> <<>>, op |-> <<>>]

ReindexIdle ==
  /\ rpc = "idle"
  /\ from_hkl = <<>>
  /\ to_hkl = <<>>
  /\ derived = NoDerivation

(***************************************************************************)
(* The pipeline: one call of                                               *)
(* refined_settings_factory_from_refined_triclinic.                        *)
(***************************************************************************)
Init ==
  /\ pc = "entry"
  /\ error = "none"
  /\ enumeration \in Enumerations
  /\ ncrystals \in {1, 2}
  /\ isolated \in BOOLEAN
  /\ cfg_iqr = 3
  /\ Lfat = <<>>
  /\ params_iqr = cfg_iqr
  /\ expt_crystal = OrigCrystal
  /\ completed = <<>>
  /\ calls = <<>>
  /\ identify_ran = FALSE
  /\ summary = <<>>
  /\ logger_disabled \in BOOLEAN
  /\ MatchIdle
  /\ ReindexIdle
  /\ RestIdle

\* Lines 101-144: the two assertions, the numbering and the argument list.
FactoryEnter ==
  /\ pc = "entry"
  /\ IF ncrystals # 1
        \/ triclinic(enumeration).cb_op # Identity
     THEN /\ pc' = "raised"
          /\ error' = "AssertionError"
          /\ Lfat' = Lfat
     ELSE /\ pc' = "mapping"
          /\ error' = error
          /\ Lfat' = BuildLfat(enumeration)
  /\ UNCHANGED <<enumeration, ncrystals, isolated, cfg_iqr, params_iqr,
                 expt_crystal, completed, calls, identify_ran, summary>>
  /\ UNCHANGED <<logger_disabled, matchVars, reindexVars, restVars>>

\* refine_subgroup(args[task]) from entry to return or raise.  In this
\* process the tasks run one after another, in order, on the caller's params
\* and experiments, and an exception ends the map; a child process works on
\* its own image of them, taken before any task ran.
refine_subgroup(task) ==
  /\ pc = "mapping"
  /\ task \in Tasks
  /\ ~Done(task)
  /\ ~isolated => (task = Len(completed) + 1 /\ ~SomeRaised)
  /\ \E run \in ServiceRuns :
       LET iqr_multiplier == IF isolated THEN cfg_iqr ELSE params_iqr
           crystal == IF isolated THEN OrigCrystal ELSE expt_crystal
           subgroup == RefinedSetting(Lfat[task], run)
           e == RunError(run)
           result ==
             [ task |-> task,
               kind |-> IF Propagates(e) THEN "raised" ELSE "returned",
               exc |-> e,
               run |-> run,
               subgroup |-> subgroup,
               iqr_entry |-> iqr_multiplier,
               iqr_exit |-> IqrOnExit(iqr_multiplier, run),
               crystal_entry |-> crystal,
               crystal_exit |-> CrystalOnExit(crystal, Lfat[task]),
               miller_entry |-> "triclinic",
               miller_exit |-> MillerOnExit("triclinic", Lfat[task]),
               logger_entry |-> logger_disabled,
               logger_exit |-> LoggerOnExit(logger_disabled, run) ]
       IN
       /\ completed' = Append(completed, result)
       /\ calls' = calls \o RefineCalls(task, iqr_multiplier, run)
       /\ params_iqr' = IF isolated THEN params_iqr ELSE result.iqr_exit
       /\ expt_crystal' = IF isolated THEN expt_crystal
                          ELSE result.crystal_exit
       /\ Lfat' = IF isolated THEN Lfat ELSE [Lfat EXCEPT ![task] = subgroup]
       /\ logger_disabled' = IF isolated THEN logger_disabled
                             ELSE result.logger_exit
  /\ UNCHANGED <<pc, error, enumeration, ncrystals, isolated, cfg_iqr,
                 identify_ran, summary>>
  /\ UNCHANGED <<matchVars, reindexVars, restVars>>

\* Lines 146-158 after the workers: parallel_map raises the first exception
\* that surfaced, or returns the ordered results, which replace the entries
\* of Lfat before identify_likely_solutions runs on it.
FactoryCollect ==
  /\ pc = "mapping"
  /\ SomeRaised \/ \A task \in Tasks : Done(task)
  /\ IF SomeRaised
     THEN LET first == CHOOSE k \in 1..Len(completed) :
                         /\ completed[k].kind = "raised"
                         /\ \A m \in 1..(k - 1) : completed[m].kind # "raised"
          IN /\ pc' = "raised"
             /\ error' = completed[first].exc.type
             /\ Lfat' = Lfat
             /\ identify_ran' = identify_ran
     ELSE LET r == identify_likely_solutions(OrderedResults(completed))
          IN /\ pc' = IF r.raised = "none" THEN "done" ELSE "raised"
             /\ error' = r.raised
             /\ Lfat' = r.settings
             /\ identify_ran' = TRUE
  /\ UNCHANGED <<enumeration, ncrystals, isolated, cfg_iqr, params_iqr,
                 expt_crystal, completed, calls, summary>>
  /\ UNCHANGED <<logger_disabled, matchVars, reindexVars, restVars>>

\* One item of the loops of as_dict and labelit_printout: the exception the
\* item raises, "none" if it is rendered.  item.refined_crystal is read
\* first (lines 44 and 70); the printout then formats rmsd with %5.3f and
\* Nmatches with %d (lines 79 and 81), while min_cc is tested for None.
DictItemError(item) ==
  IF item.refined_crystal = "absent" THEN "AttributeError" ELSE "none"

PrintoutItemError(item) ==
  IF item.refined_crystal = "absent" THEN "AttributeError"
  ELSE IF item.rmsd = None \/ item.Nmatches = None THEN "TypeError"
  ELSE "none"

\* The exception of the first item that raises one.
RECURSIVE FirstError(_)
FirstError(errors) ==
  IF errors = <<>> THEN "none"
  ELSE IF Head(errors) # "none" THEN Head(errors)
  ELSE FirstError(Tail(errors))

\* refined_settings_list.as_dict(): result[item.setting_number] = {...}
AsDict(settings) ==
  [ raised |-> FirstError([j \in 1..Len(settings) |->
                             DictItemError(settings[j])]),
    out |-> [j \in 1..Len(settings) |->
               [ key |-> settings[j].setting_number,
                 max_angular_difference |-> settings[j].mad,
                 rmsd |-> settings[j].rmsd,
                 nspots |-> settings[j].Nmatches,
                 bravais |-> settings[j].bravais,
                 cb_op |-> settings[j].cb_op,
                 min_cc |-> settings[j].min_cc,
                 recommended |-> settings[j].recommended ]] ]

\* refined_settings_list.labelit_printout(): one table row per item.
LabelitPrintout(settings) ==
  [ raised |-> FirstError([j \in 1..Len(settings) |->
                             PrintoutItemError(settings[j])]),
    out |-> [j \in 1..Len(settings) |->
               [ status |-> IF settings[j].recommended = "true"
                            THEN "*" ELSE "",
                 key |-> settings[j].setting_number,
                 max_angular_difference |-> settings[j].mad,
                 rmsd |-> settings[j].rmsd,
                 min_max_cc_str |-> IF settings[j].min_cc # None
                                    THEN "min/max" ELSE "-/-",
                 nspots |-> settings[j].Nmatches,
                 bravais |-> settings[j].bravais,
                 cb_op |-> settings[j].cb_op ]] ]

\* The caller renders the returned list: Lfat.as_dict().
as_dict ==
  /\ pc = "done"
  /\ LET r == AsDict(Lfat)
     IN /\ pc' = IF r.raised = "none" THEN "rendered" ELSE "render_raised"
        /\ error' = r.raised
        /\ summary' = IF r.raised = "none" THEN r.out ELSE summary
  /\ UNCHANGED <<enumeration, ncrystals, isolated, cfg_iqr, Lfat, params_iqr,
                 expt_crystal, completed, calls, identify_ran>>
  /\ UNCHANGED <<logger_disabled, matchVars, reindexVars, restVars>>

\* The caller renders the returned list: Lfat.labelit_printout().
labelit_printout ==
  /\ pc = "done"
  /\ LET r == LabelitPrintout(Lfat)
     IN /\ pc' = IF r.raised = "none" THEN "rendered" ELSE "render_raised"
        /\ error' = r.raised
        /\ summary' = IF r.raised = "none" THEN r.out ELSE summary
  /\ UNCHANGED <<enumeration, ncrystals, isolated, cfg_iqr, Lfat, params_iqr,
                 expt_crystal, completed, calls, identify_ran>>
  /\ UNCHANGED <<logger_disabled, matchVars, reindexVars, restVars>>

Next ==
  \/ FactoryEnter
  \/ \E task \in 1..MaxCand : refine_subgroup(task)
  \/ FactoryCollect
  \/ as_dict
  \/ labelit_printout

Spec == Init /\ [][Next]_vars

(***************************************************************************)
(* The policy alone: identify_likely_solutions on any refined list.        *)
(***************************************************************************)
MadValues == {0, 5}
CcValues == {None, 4, 5, 7}
RmsdValues == {2, 3, 4, 6, 7}

\* What refine_subgroup can leave in an entry: null rmsd, Nmatches and
\* experiments (and then a null min_cc), or a fit.
RefinedFits ==
  {NoFit} \cup {[rmsd |-> r, min_cc |-> c] : r \in RmsdValues, c \in CcValues}

RefinedEntry(n, j, mad, fit) ==
  [ setting_number |-> SettingNumber(n, j),
    cb_op |-> IF j = n THEN Identity ELSE "b,c,a",
    bravais |-> IF j = n THEN "aP" ELSE "mC",
    mad |-> mad,
    unrefined_crystal |-> IF j = n THEN OrigCrystal ELSE SettingNumber(n, j),
    rmsd |-> fit.rmsd,
    Nmatches |-> IF fit.rmsd = None THEN None ELSE 12,
    refined_experiments |-> IF fit.rmsd = None THEN "None" ELSE "experiments",
    refined_crystal |-> IF fit.rmsd = None THEN "absent" ELSE "crystal",
    min_cc |-> fit.min_cc,
    recommended |-> "unset" ]

InitPolicy ==
  /\ pc = "refined"
  /\ error = "none"
  /\ enumeration = <<>>
  /\ ncrystals = 1
  /\ isolated = FALSE
  /\ cfg_iqr = 3
  /\ \E n \in 1..MaxSettings :
       \E m \in [1..n -> MadValues], f \in [1..n -> RefinedFits] :
         Lfat = [j \in 1..n |-> RefinedEntry(n, j, m[j], f[j])]
  /\ params_iqr = cfg_iqr
  /\ expt_crystal = OrigCrystal
  /\ completed = <<>>
  /\ calls = <<>>
  /\ identify_ran = FALSE
  /\ summary = <<>>
  /\ logger_disabled = FALSE
  /\ MatchIdle
  /\ ReindexIdle
  /\ RestIdle

\* identify_likely_solutions(Lfat), lines 160-174.
IdentifyCall ==
  /\ pc = "refined"
  /\ LET r == identify_likely_solutions(Lfat)
     IN /\ pc' = IF r.raised = "none" THEN "done" ELSE "raised"
        /\ error' = r.raised
        /\ Lfat' = r.settings
        /\ identify_ran' = TRUE
  /\ UNCHANGED <<enumeration, ncrystals, isolated, cfg_iqr, params_iqr,
                 expt_crystal, completed, calls, summary>>
  /\ UNCHANGED <<logger_disabled, matchVars, reindexVars, restVars>>

NextPolicy == IdentifyCall

SpecPolicy == InitPolicy /\ [][NextPolicy]_vars

(***************************************************************************)
(* ReindexOperatorSolver: derive_change_of_basis_op.  The fit is computed  *)
(* in exact rational arithmetic: a rational is a pair <<n, d>> with d > 0. *)
(***************************************************************************)
MinEquations == 3   \* assert sel.count(True) >= 3
Denom == 12         \* denom = 12
EpsInverse == 100   \* eps=1e-2

Sentinel == <<0, 0, 0>>

Abs(x) == IF x < 0 THEN -x ELSE x

\* Only an unindexed to-index excludes a row.
SelToOnly(from, to) ==
  [i \in 1..Len(from) |-> to[i] # Sentinel]

\* sel = (to_hkl != (0,0,0)) & (from_hkl != (0,0,0))
Sel(from, to) ==
  [i \in 1..Len(from) |-> to[i] # Sentinel /\ from[i] # Sentinel]

\* array.select(sel)
Select(array, sel) ==
  LET kept == SelectSeq([i \in 1..Len(array) |-> i], LAMBDA i : sel[i])
  IN [n \in 1..Len(kept) |-> array[kept[n]]]

RECURSIVE SumSeq(_)
SumSeq(s) == IF s = <<>> THEN 0 ELSE Head(s) + SumSeq(Tail(s))

Det3(m) ==
  m[1][1] * (m[2][2] * m[3][3] - m[2][3] * m[3][2])
  - m[1][2] * (m[2][1] * m[3][3] - m[2][3] * m[3][1])
  + m[1][3] * (m[2][1] * m[3][2] - m[2][2] * m[3][1])

\* The normal matrix of linear_ls(3) after add_equation(design_matrix_row =
\* hkl, weight = 1) for every row of from_hkl.
NormalEntry(from, a, b) ==
  SumSeq([n \in 1..Len(from) |-> from[n][a] * from[n][b]])

NormalMatrix(from) ==
  LET row(a) == <<NormalEntry(from, a, 1), NormalEntry(from, a, 2),
                  NormalEntry(from, a, 3)>>
  IN <<row(1), row(2), row(3)>>

\* Its right-hand side for component i of to_hkl.
RightHandSide(from, to, i) ==
  LET entry(a) == SumSeq([n \in 1..Len(from) |-> from[n][a] * to[n][i]])
  IN <<entry(1), entry(2), entry(3)>>

\* eqns.solve(); eqns.solution() for component i, by Cramer's rule: entry j
\* is det(normal matrix with column j replaced) / det(normal matrix).
Solution(from, to, i) ==
  LET nm == NormalMatrix(from)
      rhs == RightHandSide(from, to, i)
      det == Det3(nm)
      replaced(j) ==
        [a \in 1..3 |-> [b \in 1..3 |-> IF b = j THEN rhs[a] ELSE nm[a][b]]]
  IN << <<Det3(replaced(1)), det>>, <<Det3(replaced(2)), det>>,
        <<Det3(replaced(3)), det>> >>


\* continued_fraction.from_real(x, eps) for x = num / den: the partial
\* quotients are appended until the convergent h / k is within eps of x.
\* n / d is what remains to expand; hp / kp and hpp / kpp are the two
\* convergents before.
RECURSIVE FromReal(_, _, _, _, _, _, _, _)
FromReal(num, den, n, d, hp, kp, hpp, kpp) ==
  LET a == n \div d
      h == a * hp + hpp
      k == a * kp + kpp
      rem == n - a * d
  IN IF rem = 0 \/ EpsInverse * Abs(num * k - h * den) < den * k
     THEN <<h, k>>
     ELSE FromReal(num, den, d, rem, h, k, hp, kp)

\* continued_fraction.from_real(r_, eps=1e-2).as_rational()
as_rational(x) == FromReal(x[1], x[2], x[1], x[2], 1, 0, 0, 1)

\* int(q) of a rational: the quotient truncated towards zero.
PyInt(q) ==
  IF q[1] >= 0 THEN q[1] \div q[2] ELSE -((-q[1]) \div q[2])

\* int(denom * continued_fraction.from_real(r_, eps=1e-2).as_rational())
Snap(x) ==
  LET q == as_rational(x) IN PyInt(<<Denom * q[1], q[2]>>)

\* The matrix is used as solved, without the transposition.
NotTransposed(m) == m

\* matrix.sqr(r).transpose()
Transpose(m) ==
  << <<m[1][1], m[2][1], m[3][1]>>,
     <<m[1][2], m[2][2], m[3][2]>>,
     <<m[1][3], m[2][3], m[3][3]>> >>

\* change_of_basis_op(rt_mx(rot_mx(r, denominator=denom))).inverse() applied
\* to a Miller index: the row vector h times r, in units of 1 / denom.
TimesDenom(rot, h) ==
  LET entry(c) == h[1] * rot[1][c] + h[2] * rot[2][c] + h[3] * rot[3][c]
  IN <<entry(1), entry(2), entry(3)>>

\* The product is a Miller index: every component is a whole number.
Integral(rot, h) == \A c \in 1..3 : TimesDenom(rot, h)[c] % Denom = 0

\* change_of_basis_op.apply(h)
Apply(rot, h) ==
  LET p == TimesDenom(rot, h)
  IN <<p[1] \div Denom, p[2] \div Denom, p[3] \div Denom>>

\* The operator is returned unchecked.
NeverMismatched(rot, from, to) == FALSE

\* (change_of_basis_op.apply(from_hkl) == to_hkl).count(False) != 0
Mismatched(rot, from, to) ==
  \E n \in 1..Len(from) : Apply(rot, from[n]) # to[n]

\* derive_change_of_basis_op(from_hkl, to_hkl), lines 72-111.  The stages at
\* which the call can be left: the assertion on the count, the solver on a
\* normal matrix that is not positive definite, the operator's constructor on
\* a matrix that has no inverse, apply on an index that does not stay
\* integral, and the assertion of line 109.
Derive(from_all, to_all) ==
  LET sel == Sel(from_all, to_all)
      from == Select(from_all, sel)
      to == Select(to_all, sel)
      left(exc, stage) == [NoDerivation EXCEPT !.raised = exc,
                                               !.stage = stage, !.sel = sel]
  IN IF Len(from) < MinEquations THEN left("AssertionError", "count")
     ELSE IF Det3(NormalMatrix(from)) = 0 THEN left("RuntimeError", "solve")
     ELSE LET fit == <<Solution(from, to, 1), Solution(from, to, 2),
                       Solution(from, to, 3)>>
              snapped(x) == <<Snap(x[1]), Snap(x[2]), Snap(x[3])>>
              r == <<snapped(fit[1]), snapped(fit[2]), snapped(fit[3])>>
              rot == Transpose(r)
              fitted(exc, stage) ==
                [left(exc, stage) EXCEPT !.fit = fit, !.r = r]
          IN IF Det3(rot) = 0 THEN fitted("RuntimeError", "operator")
             ELSE IF \E n \in 1..Len(from) : ~Integral(rot, from[n])
                  THEN fitted("RuntimeError", "apply")
             ELSE IF Mismatched(rot, from, to)
                  THEN fitted("AssertionError", "check")
             ELSE [fitted("none", "return") EXCEPT !.op = rot]


\* The rows the two arrays are drawn from.  to_hkl is the image of `image`
\* under a permutation of the three components: rows that follow the
\* permutation, rows with an unindexed side, and rows of a cell with a
\* doubled, a halved or a five-fold first axis.
RowKinds ==
  << [from |-> <<1, 0, 0>>, image |-> <<1, 0, 0>>],
     [from |-> <<0, 1, 0>>, image |-> <<0, 1, 0>>],
     [from |-> <<0, 0, 1>>, image |-> <<0, 0, 1>>],
     [from |-> <<1, 1, 0>>, image |-> <<1, 1, 0>>],
     [from |-> <<1, -1, 2>>, image |-> <<1, -1, 2>>],
     [from |-> <<0, 0, 0>>, image |-> <<1, 1, 1>>],
     [from |-> <<1, 1, 1>>, image |-> <<0, 0, 0>>],
     [from |-> <<0, 0, 0>>, image |-> <<0, 0, 0>>],
     [from |-> <<2, 0, 0>>, image |-> <<1, 0, 0>>],
     [from |-> <<5, 0, 0>>, image |-> <<5, 0, 0>>],
     [from |-> <<1, 0, 0>>, image |-> <<2, 0, 0>>],
     [from |-> <<5, 0, 0>>, image |-> <<1, 0, 0>>] >>

\* The permutations of the components, as maps of 1..3.
ComponentPerms == Perms(1..3)
Permute(P, h) == <<h[P[1]], h[P[2]], h[P[3]]>>

\* The fit sums over the rows, so the rows are listed in the order of
\* RowKinds.
KindLists(max) ==
  UNION {{k \in [1..n -> 1..Len(RowKinds)] :
            \A a \in 1..(n - 1) : k[a] <= k[a + 1]} : n \in 0..max}

InitReindex ==
  /\ rpc = "call"
  /\ \E P \in ComponentPerms, k \in KindLists(MaxPairs) :
       /\ from_hkl = [n \in 1..Len(k) |-> RowKinds[k[n]].from]
       /\ to_hkl = [n \in 1..Len(k) |-> Permute(P, RowKinds[k[n]].image)]
  /\ derived = NoDerivation
  /\ pc = "idle"
  /\ error = "none"
  /\ enumeration = <<>>
  /\ ncrystals = 1
  /\ isolated = FALSE
  /\ cfg_iqr = 3
  /\ Lfat = <<>>
  /\ params_iqr = cfg_iqr
  /\ expt_crystal = OrigCrystal
  /\ completed = <<>>
  /\ calls = <<>>
  /\ identify_ran = FALSE
  /\ summary = <<>>
  /\ logger_disabled = FALSE
  /\ MatchIdle
  /\ RestIdle

\* derive_change_of_basis_op(from_hkl, to_hkl)
derive_change_of_basis_op ==
  /\ rpc = "call"
  /\ derived' = Derive(from_hkl, to_hkl)
  /\ rpc' = IF derived'.raised = "none" THEN "returned" ELSE "raised"
  /\ UNCHANGED <<from_hkl, to_hkl>>
  /\ UNCHANGED <<symVars, matchVars, restVars>>

NextReindex == derive_change_of_basis_op

SpecReindex == InitReindex /\ [][NextReindex]_vars

(***************************************************************************)
(* Claims about the recommendation policy (under SpecPolicy).              *)
(***************************************************************************)
Triclinic == Lfat[Len(Lfat)]

\* The decision table as stated.  A null min_cc is below every
\* threshold and a null rmsd exceeds nothing (the ordering of None).
CcBelow(s, cut) == s.min_cc = None \/ s.min_cc < cut
RmsdOver(s, twice_f) == s.rmsd # None /\ 2 * s.rmsd > twice_f * Triclinic.rmsd
TableRejects(s) ==
  IF s.mad < MadCut
  THEN CcBelow(s, CcLowMad) /\ RmsdOver(s, TwiceFactorLowMad)
  ELSE \/ CcBelow(s, CcHighMad) /\ RmsdOver(s, TwiceFactorHighMad)
       \/ RmsdOver(s, TwiceFactorAny)

\* C1: when identify_likely_solutions returns, every setting is rejected
\* (recommended false) exactly when the decision table rejects it, with
\* strict comparisons, and is recommended otherwise.
C1_DecisionTable ==
  pc = "done" =>
    \A j \in 1..Len(Lfat) :
      Lfat[j].recommended = (IF TableRejects(Lfat[j]) THEN "false" ELSE "true")

\* A setting exactly on the 0.5 boundary of min_cc, with an rmsd over
\* 1.5 rmsd_p1, was recommended.
C1_Witness ==
  /\ pc = "done"
  /\ \E j \in 1..Len(Lfat) :
       /\ Lfat[j].mad < MadCut
       /\ Lfat[j].min_cc = CcLowMad
       /\ RmsdOver(Lfat[j], TwiceFactorLowMad)
       /\ Lfat[j].recommended = "true"

\* C2: for every refined list, the call of identify_likely_solutions
\* completes and the last (triclinic) entry ends with recommended true.
C2_TriclinicRecommended ==
  pc # "refined" =>
    /\ pc = "done"
    /\ Triclinic.recommended = "true"

\* The same setting at a high distortion: max_angular_difference 0.5.
Distorted(s) == [s EXCEPT !.mad = MadCut]

\* C19 as stated: a recommended setting with max_angular_difference < 0.5
\* would be recommended too with the same min_cc and rmsd but
\* max_angular_difference >= 0.5.
C19_AsStated ==
  pc = "done" =>
    \A j \in 1..Len(Lfat) :
      (Lfat[j].mad < MadCut /\ Lfat[j].recommended = "true") =>
        Verdict(Distorted(Lfat[j]), Triclinic.rmsd) = "true"

\* C19: a recommended setting with max_angular_difference < 0.5 and a
\* min_cc below 0.5 (or null) would be recommended too with the same min_cc
\* and rmsd but max_angular_difference >= 0.5.
C19_StricterBelowHalfCc ==
  pc = "done" =>
    \A j \in 1..Len(Lfat) :
      (Lfat[j].mad < MadCut /\ Lfat[j].recommended = "true"
         /\ CcBelow(Lfat[j], CcLowMad)) =>
        Verdict(Distorted(Lfat[j]), Triclinic.rmsd) = "true"

\* A low-distortion setting with min_cc 0.4 and an rmsd of exactly 1.5
\* rmsd_p1 was recommended.
C19_Witness ==
  /\ pc = "done"
  /\ \E j \in 1..Len(Lfat) :
       /\ Lfat[j].mad < MadCut
       /\ Lfat[j].min_cc = 4
       /\ 2 * Lfat[j].rmsd = TwiceFactorLowMad * Triclinic.rmsd
       /\ Lfat[j].recommended = "true"

(***************************************************************************)
(* Claims about the factory and refine_subgroup (under Spec).              *)
(***************************************************************************)
Nset == Len(enumeration)
Entry(task) == completed[CHOOSE k \in 1..Len(completed) : completed[k].task = task]
IsDegenerate(e) ==
  e.type = "RuntimeError" /\ e.msg \in {G0Message, G1Message}
IsUnexpected(e) == e # NoExc /\ ~IsDegenerate(e)

\* C5: whatever the order in which the refinements complete, entry i of the
\* list the factory builds from the results is the result of candidate i:
\* it has the i-th candidate's setting_number, cb_op and bravais and the fit
\* that candidate's refinement gave; none is lost or moved.
C5_ResultOrder ==
  identify_ran =>
    /\ Len(Lfat) = Nset
    /\ \A i \in 1..Nset :
         /\ Lfat[i].setting_number = Nset - i + 1
         /\ Lfat[i].cb_op = enumeration[i].cb_op
         /\ Lfat[i].bravais = enumeration[i].bravais
         /\ Lfat[i].rmsd = Entry(i).run.fit.rmsd
         /\ Lfat[i].min_cc = CcSummary(Entry(i).run.fit).min_cc

\* The factory returned although the last candidate finished first.
C5_Witness ==
  /\ pc = "done"
  /\ Nset >= 2
  /\ completed[1].task = Nset

\* C6: a recognized degenerate-geometry error of either pass does not leave
\* refine_subgroup; the candidate is returned with null rmsd, Nmatches and
\* refined_experiments, and once the map is over every other candidate has
\* been refined and carries its own result.
C6_DegenerateIsolated ==
  /\ \A k \in 1..Len(completed) :
       IsDegenerate(completed[k].exc) =>
         /\ completed[k].kind = "returned"
         /\ completed[k].subgroup.rmsd = None
         /\ completed[k].subgroup.Nmatches = None
         /\ completed[k].subgroup.refined_experiments = "None"
  /\ (pc \in {"done", "raised"} /\ error \notin {"AssertionError"}
        /\ \A k \in 1..Len(completed) : ~IsUnexpected(completed[k].exc)) =>
       \A i \in 1..Nset :
         /\ Done(i)
         /\ Entry(i).exc = NoExc =>
              /\ Lfat[i].rmsd = Entry(i).run.fit.rmsd
              /\ Lfat[i].rmsd # None
              /\ Lfat[i].refined_experiments = "experiments"

\* The factory returned a list in which a candidate that failed in pass one,
\* or in pass two, stands beside a refined one.
C6_Witness ==
  /\ pc = "done"
  /\ \E i, j \in 1..Nset :
       /\ IsDegenerate(Entry(i).exc)
       /\ Lfat[i].rmsd = None
       /\ Lfat[j].rmsd # None

\* C7: an error that is not one of the two recognized signatures leaves
\* refine_subgroup and the factory: no list is returned and
\* identify_likely_solutions never runs, however many candidates refined.
C7_UnexpectedPropagates ==
  /\ \A k \in 1..Len(completed) :
       IsUnexpected(completed[k].exc) => completed[k].kind = "raised"
  /\ (\E k \in 1..Len(completed) : IsUnexpected(completed[k].exc)) =>
       /\ pc \in {"mapping", "raised"}
       /\ ~identify_ran
       /\ pc = "raised" => error \in {"RuntimeError", "ValueError"}

\* The factory raised although another candidate had refined successfully.
C7_Witness ==
  /\ pc = "raised"
  /\ error = "RuntimeError"
  /\ \E k \in 1..Len(completed) :
       completed[k].exc = NoExc /\ completed[k].kind = "returned"

\* C8: every candidate's first call of the refinement service finds the
\* multiplier at twice the configured value, and its second call finds the
\* configured value and is given the experiments of the first.
C8_TwoPassTolerance ==
  \A n \in 1..Len(calls) :
    /\ calls[n].pass = 1 =>
         /\ calls[n].iqr = 2 * cfg_iqr
         /\ calls[n].experiments = "input"
    /\ calls[n].pass = 2 =>
         /\ calls[n].iqr = cfg_iqr
         /\ calls[n].experiments = "pass1"
         /\ n > 1
         /\ calls[n - 1].pass = 1
         /\ calls[n - 1].task = calls[n].task

\* C9: the reflection table and the experiment list given to refine_subgroup
\* are the same after the call as before it.
C9_InputsUnchanged ==
  \A k \in 1..Len(completed) :
    /\ completed[k].miller_exit = completed[k].miller_entry
    /\ completed[k].crystal_exit = completed[k].crystal_entry

\* C10: once numbered, the list has setting_number N at the first entry,
\* one less at each next entry and 1 at the last, whose change-of-basis
\* operator is the identity; identify_likely_solutions only ever ran on such
\* a list.
C10_SettingNumbers ==
  Lfat # <<>> =>
    /\ Len(Lfat) = Nset
    /\ \A j \in 1..Nset : Lfat[j].setting_number = Nset - j + 1
    /\ {Lfat[j].setting_number : j \in 1..Nset} = 1..Nset
    /\ Lfat[Nset].setting_number = 1
    /\ Lfat[Nset].cb_op = Identity
    /\ identify_ran => error # "AssertionError"

\* The factory returned a list of several settings.
C10_Witness ==
  /\ pc = "done"
  /\ Len(Lfat) >= 2
  /\ Lfat[1].setting_number = Len(Lfat)

Refused ==
  /\ pc = "raised"
  /\ error = "AssertionError"
  /\ Lfat = <<>>
  /\ completed = <<>>
  /\ calls = <<>>

\* C18 as stated: the factory fails with an AssertionError, before any
\* candidate is refined, if the first (supergroup) entry of the enumeration
\* has a change-of-basis operator that is not the identity.
C18_AsStated ==
  (pc # "entry" /\ enumeration[1].cb_op # Identity) => Refused

\* C18: the factory fails with an AssertionError, before any candidate is
\* refined, if the last (triclinic) entry of the enumeration has a
\* change-of-basis operator that is not the identity.
C18_TriclinicIdentity ==
  (pc # "entry" /\ enumeration[Nset].cb_op # Identity) => Refused

\* One crystal, an identity supergroup entry and a triclinic entry that is
\* not the identity: the factory refused.
C18_Witness ==
  /\ Refused
  /\ ncrystals = 1
  /\ Nset >= 2
  /\ enumeration[1].cb_op = Identity
  /\ enumeration[Nset].cb_op # Identity

\* A candidate that refine_subgroup marked unrefinable.
Unrefinable(s) == s.rmsd = None /\ s.refined_experiments = "None"

\* C17: with one or more candidates marked unrefinable, the pipeline still
\* completes: identify_likely_solutions runs without error, and as_dict and
\* labelit_printout render every setting, the unrefinable ones with a null
\* rmsd, instead of raising.
C17_UnrefinableRendered ==
  (identify_ran /\ \E j \in 1..Len(Lfat) : Unrefinable(Lfat[j])) =>
    /\ error = "none"
    /\ pc \in {"done", "rendered"}
    /\ pc = "rendered" =>
         /\ Len(summary) = Len(Lfat)
         /\ \A j \in 1..Len(Lfat) :
              /\ summary[j].key = Lfat[j].setting_number
              /\ Unrefinable(Lfat[j]) => summary[j].rmsd = None

(***************************************************************************)
(* Claims about match_with_reference (under SpecMatch).                    *)
(***************************************************************************)
SelfIdx == 1..Len(self_rows)
OtherIdx == 1..Len(other_rows)
PairIdx == 1..Len(match.sind)
D2(i, j) == Dist2(self_rows[i], other_rows[j])
SameKey(i, j) == Key(self_rows[i]) = Key(other_rows[j])

\* The other rows that share row i's key and lie within the threshold.
Partners(i) ==
  {j \in OtherIdx : SameKey(i, j) /\ D2(i, j) < DistanceCut * DistanceCut}
UniquePartner == \A i \in SelfIdx : Cardinality(Partners(i)) = 1
Partner(i) == CHOOSE j \in Partners(i) : TRUE
PartnersDistinct ==
  \A i1, i2 \in SelfIdx : i1 # i2 => Partner(i1) # Partner(i2)

\* Every self row is in exactly one pair, which is accepted and is the pair
\* with its partner.
PairedWithPartners ==
  \A i \in SelfIdx :
    /\ Cardinality({n \in PairIdx : match.sind[n] = i}) = 1
    /\ \A n \in PairIdx :
         match.sind[n] = i => match.mask[n] /\ match.oind[n] = Partner(i)
    /\ match.mask2[i]

\* C3 as stated: whenever each self row has exactly one other row of its key
\* within the threshold, every self row is paired exactly once, with that row.
C3_AsStated ==
  (mpc # "call" /\ UniquePartner) =>
    /\ mpc = "matched"
    /\ PairedWithPartners

\* C3: whenever each self row has exactly one other row of its key within
\* the threshold and no two self rows have the same such row, every self row
\* is paired exactly once, with that row.
C3_Bijection ==
  (mpc # "call" /\ UniquePartner /\ PartnersDistinct) =>
    /\ mpc = "matched"
    /\ PairedWithPartners

\* Two self rows of one key sorted out between two other rows of that key.
C3_Witness ==
  /\ mpc = "matched"
  /\ UniquePartner
  /\ PartnersDistinct
  /\ Len(self_rows) = 2
  /\ Len(other_rows) = 2
  /\ Key(self_rows[1]) = Key(self_rows[2])
  /\ match.oind = <<2, 1>>

\* The candidates of self row i, and its nearest one (the lowest row among
\* equally near ones).
Candidates(i) == {j \in OtherIdx : SameKey(i, j)}
NearestOther(i) ==
  CHOOSE j \in Candidates(i) :
    \A j2 \in Candidates(i) :
      D2(i, j) < D2(i, j2) \/ (D2(i, j) = D2(i, j2) /\ j <= j2)
Claimants(j) ==
  {i \in SelfIdx : SameKey(i, j) /\ NearestOther(i) = j}
Winner(j) ==
  CHOOSE i \in Claimants(j) :
    \A i2 \in Claimants(j) :
      D2(i, j) < D2(i2, j) \/ (D2(i, j) = D2(i2, j) /\ i <= i2)

\* C4: when several self rows of a key have the same other row as nearest
\* candidate, that row is paired with the nearest of them only, the first of
\* them at equal distance, and every other of them is in no pair at all.
C4_TieBreak ==
  mpc # "call" =>
    \A j \in OtherIdx :
      Cardinality(Claimants(j)) >= 2 =>
        /\ {match.sind[n] : n \in {m \in PairIdx : match.oind[m] = j}}
             = {Winner(j)}
        /\ \A i \in Claimants(j) \ {Winner(j)} :
             \A n \in PairIdx : match.sind[n] # i

\* Two self rows at the same distance from their nearest other row, the
\* first kept, the second left out although another row of the key is free.
C4_Witness ==
  /\ mpc = "matched"
  /\ \E j \in OtherIdx :
       /\ Claimants(j) = {1, 2}
       /\ D2(1, j) = D2(2, j)
       /\ match.sind = <<1>>
       /\ match.oind = <<j>>
       /\ \E j2 \in Candidates(2) : j2 # j

\* Pair n passes the distance filter: its rows are less than 2.0 apart.
Passes(n) ==
  D2(match.sind[n], match.oind[n]) < DistanceCut * DistanceCut
AcceptedSelf == {match.sind[n] : n \in {m \in PairIdx : Passes(m)}}
AcceptedOther == {match.oind[n] : n \in {m \in PairIdx : Passes(m)}}

\* C14: a pair is accepted exactly when its two calculated centroids are
\* strictly less than 2.0 apart; the returned mask has one entry per self
\* row, true exactly at the self rows of accepted pairs, and those are the
\* rows on which the call sets reference_spot.
C14_DistanceFilter ==
  mpc = "matched" =>
    /\ \A n \in PairIdx : match.mask[n] <=> Passes(n)
    /\ Len(match.mask2) = Len(self_rows)
    /\ \A i \in SelfIdx :
         /\ match.mask2[i] <=> i \in AcceptedSelf
         /\ "reference_spot" \in self_rows[i].flags <=> i \in AcceptedSelf

\* Of two pairs, the one exactly 2.0 apart was refused and the nearer one
\* accepted.
C14_Witness ==
  /\ mpc = "matched"
  /\ \E n, m \in PairIdx :
       /\ D2(match.sind[n], match.oind[n]) = DistanceCut * DistanceCut
       /\ ~match.mask[n]
       /\ ~match.mask2[match.sind[n]]
       /\ match.mask[m]
       /\ "reference_spot" \in self_rows[match.sind[m]].flags

Occurrences(seq, x) == Cardinality({n \in 1..Len(seq) : seq[n] = x})

\* C15: every other row is in exactly one of other_matched and
\* other_unmatched; other_matched holds the other rows of the accepted
\* pairs, one per pair and as many as the mask has true entries; an other
\* row whose key no self row has is in other_unmatched.
C15_Partition ==
  mpc = "matched" =>
    /\ \A j \in OtherIdx :
         Occurrences(match.other_matched, j)
           + Occurrences(match.other_unmatched, j) = 1
    /\ Len(match.other_matched) + Len(match.other_unmatched)
         = Len(other_rows)
    /\ {match.other_matched[n] : n \in 1..Len(match.other_matched)}
         = AcceptedOther
    /\ Len(match.other_matched) = Cardinality({n \in PairIdx : Passes(n)})
    /\ Len(match.other_matched)
         = Cardinality({i \in SelfIdx : match.mask2[i]})
    /\ \A j \in OtherIdx :
         (\A i \in SelfIdx : ~SameKey(i, j)) =>
           Occurrences(match.other_unmatched, j) = 1

\* One other row matched and one left out because no self row has its key.
C15_Witness ==
  /\ mpc = "matched"
  /\ Len(match.other_matched) = 1
  /\ \E j \in OtherIdx :
       /\ \A i \in SelfIdx : ~SameKey(i, j)
       /\ Occurrences(match.other_unmatched, j) = 1
  /\ Len(match.other_matched) + Len(match.other_unmatched) = Len(other_rows)

StatusFlags == {"strong", "indexed", "used_in_refinement", "reference_spot"}

\* C16: the self row of a pair that fails the distance filter is given none
\* of the four status flags by the call (the self rows enter without them).
C16_FlagsOnlyFromAccepted ==
  mpc = "matched" =>
    \A n \in PairIdx :
      ~Passes(n) => self_rows[match.sind[n]].flags \cap StatusFlags = {}

(***************************************************************************)
(* Claims about derive_change_of_basis_op (under SpecReindex).             *)
(***************************************************************************)
ValidRows ==
  {n \in 1..Len(from_hkl) : from_hkl[n] # Sentinel /\ to_hkl[n] # Sentinel}

\* The matrix m, in units of 1 / Denom, takes the from-index of row n to its
\* to-index: Denom * to = m * from.
MapsRow(m, n) ==
  \A c \in 1..3 :
    m[c][1] * from_hkl[n][1] + m[c][2] * from_hkl[n][2]
      + m[c][3] * from_hkl[n][3] = Denom * to_hkl[n][c]

\* C11: an operator that derive_change_of_basis_op returns takes every valid
\* from-index exactly to its to-index; when the snapped matrix fails on a
\* valid row, the call raises and returns no operator.
C11_ExactOrRaise ==
  /\ rpc = "returned" =>
       /\ derived.op # <<>>
       /\ \A n \in ValidRows : MapsRow(Transpose(derived.op), n)
  /\ (derived.r # <<>> /\ \E n \in ValidRows : ~MapsRow(derived.r, n)) =>
       /\ rpc = "raised"
       /\ derived.op = <<>>

\* Two rows that no operator serves together gave a matrix of whole numbers
\* that fails on one of them, and the call raised on line 109.
C11_Witness ==
  /\ rpc = "raised"
  /\ derived.stage = "check"
  /\ \E n \in ValidRows : ~MapsRow(derived.r, n)
  /\ \E n \in ValidRows : MapsRow(derived.r, n)

\* The valid rows alone, in order.
ValidFrom == Select(from_hkl, [n \in 1..Len(from_hkl) |-> n \in ValidRows])
ValidTo == Select(to_hkl, [n \in 1..Len(to_hkl) |-> n \in ValidRows])

\* C12: with fewer than 3 rows left once every row with a (0,0,0) from- or
\* to-index is put aside, the call raises the assertion and returns no
\* operator; the rows put aside count for nothing: the fit, the snapped
\* matrix and the outcome are those of the valid rows alone.
C12_InsufficientData ==
  rpc # "call" =>
    /\ Cardinality(ValidRows) < MinEquations =>
         /\ rpc = "raised"
         /\ derived.raised = "AssertionError"
         /\ derived.stage = "count"
         /\ derived.op = <<>>
    /\ derived.sel = [n \in 1..Len(from_hkl) |-> n \in ValidRows]
    /\ LET alone == Derive(ValidFrom, ValidTo)
       IN /\ derived.raised = alone.raised
          /\ derived.stage = alone.stage
          /\ derived.fit = alone.fit
          /\ derived.r = alone.r
          /\ derived.op = alone.op

\* Two valid rows beside two rows with a sentinel on either side: the call
\* raised for want of equations.
C12_Witness ==
  /\ rpc = "raised"
  /\ derived.stage = "count"
  /\ Cardinality(ValidRows) = 2
  /\ \E n \in 1..Len(from_hkl) : from_hkl[n] = Sentinel /\ to_hkl[n] # Sentinel
  /\ \E n \in 1..Len(from_hkl) : to_hkl[n] = Sentinel /\ from_hkl[n] # Sentinel

\* The permutation P as a matrix in units of 1 / Denom: to[c] = from[P[c]].
PermutationMatrix(P) ==
  [c \in 1..3 |-> [j \in 1..3 |-> IF P[c] = j THEN Denom ELSE 0]]

UnitIndices == {<<1, 0, 0>>, <<0, 1, 0>>, <<0, 0, 1>>}

Follows(P) ==
  \A n \in 1..Len(from_hkl) : to_hkl[n] = Permute(P, from_hkl[n])

\* C13: when from_hkl holds (1,0,0), (0,1,0) and (0,0,1) and every to-index
\* is its from-index with the components permuted by P, the call returns,
\* and the operator it returns acts on a Miller index as P does.
C13_PermutationRecovered ==
  rpc # "call" =>
    \A P \in ComponentPerms :
      (Follows(P) /\ UnitIndices \subseteq {from_hkl[n] : n \in 1..Len(from_hkl)})
        => /\ rpc = "returned"
           /\ \A c, j \in 1..3 :
                Transpose(derived.op)[c][j] = PermutationMatrix(P)[c][j]

\* A cyclic permutation was recovered from the three unit indices and a
\* further one.
C13_Witness ==
  /\ rpc = "returned"
  /\ \E P \in ComponentPerms :
       /\ P = <<2, 3, 1>>
       /\ Follows(P)
       /\ UnitIndices \subseteq {from_hkl[n] : n \in 1..Len(from_hkl)}
       /\ \E n \in 1..Len(from_hkl) : from_hkl[n] = <<1, -1, 2>>

\* |x - p / q| <= |x - p2 / q2| for x = n / d.
NoFarther(x, p, q, p2, q2) ==
  Abs(x[1] * q - p * x[2]) * q2 <= Abs(x[1] * q2 - p2 * x[2]) * q

\* C20: every entry of the snapped matrix, over the denominator 12, is the
\* rational nearest to the fitted entry among the rationals of denominator
\* at most 12: no such rational is nearer to the fitted entry.
C20_NearestRational ==
  derived.r # <<>> =>
    \A i, j \in 1..3 :
      \A q \in 1..Denom :
        \A p \in (-3 * q)..(3 * q) :
          NoFarther(derived.fit[i][j], derived.r[i][j], Denom, p, q)

(***************************************************************************)
(* The symmetry pipeline is idle in the specifications that follow.        *)
(***************************************************************************)
SymIdle ==
  /\ pc = "idle"
  /\ error = "none"
  /\ enumeration = <<>>
  /\ ncrystals = 1
  /\ isolated = FALSE
  /\ cfg_iqr = 3
  /\ Lfat = <<>>
  /\ params_iqr = cfg_iqr
  /\ expt_crystal = OrigCrystal
  /\ completed = <<>>
  /\ calls = <<>>
  /\ identify_ran = FALSE
  /\ summary = <<>>
  /\ logger_disabled = FALSE

(***************************************************************************)
(* find_matching_symmetry: the subgroup of the lattice group that has the  *)
(* target's Bravais type and the smallest angular difference.              *)
(***************************************************************************)
MaxSubgroups == 2

Unreached == 100000000   \* best_angular_difference = 1e8

\* What cctbx reports for a subgroup (external): order_z and the space
\* group number, and the Bravais type of its reference setting.
SubgroupKinds ==
  { [order_z |-> 1, number |-> 1, bravais |-> "aP"],
    [order_z |-> 2, number |-> 3, bravais |-> "mP"],
    [order_z |-> 2, number |-> 4, bravais |-> "mP"] }

\* find_max_delta for the subgroup's metric supergroup, in tenths of a
\* degree.
AngularDifferences == {0, 3}

\* Lines 333-342, the attempt to use the identity operator: the best cell
\* is not similar to the input cell; change_basis returns the same space
\* group, or another one; it raises the RuntimeError "Unsuitable value for
\* rational rotation matrix.", or another RuntimeError.
Corrections == {"dissimilar", "same_group", "other_group", "unsuitable",
                "error"}

\* sort_values.append(order_z*1000+space_group_number)
SortValue(group) == group.order_z * 1000 + group.number

\* flex.sort_permutation(sort_values, True): a permutation that puts the
\* values in descending order; the order of equal values is the library's.
SortPermutations(sort_values) ==
  { p \in Perms(1..Len(sort_values)) :
      \A a, b \in 1..Len(sort_values) :
        a < b => sort_values[p[a]] >= sort_values[p[b]] }

\* A candidate as good as the best so far replaces it.
AsGood(max_angular_difference, best_angular_difference) ==
  max_angular_difference <= best_angular_difference

\* if max_angular_difference < best_angular_difference
Better(max_angular_difference, best_angular_difference) ==
  max_angular_difference < best_angular_difference

\* for i_subgr in perm: ... from position n of perm on.
RECURSIVE FindLoop(_, _, _, _, _, _)
FindLoop(subgrs, target, perm, n, best, best_angular_difference) ==
  IF n > Len(perm) THEN [raised |-> "none", perm |-> perm, best |-> best]
  ELSE LET i_subgr == perm[n]
           group == subgrs[i_subgr]
       IN IF group.bravais # target
          THEN FindLoop(subgrs, target, perm, n + 1, best,
                        best_angular_difference)
          ELSE IF group.correction = "error"
          THEN [raised |-> "RuntimeError", perm |-> perm, best |-> best]
          ELSE IF Better(group.max_angular_difference,
                         best_angular_difference)
          THEN FindLoop(subgrs, target, perm, n + 1,
                        [i_subgr |-> i_subgr,
                         max_angular_difference |->
                           group.max_angular_difference,
                         cb_op_inp_best |->
                           IF group.correction = "same_group"
                           THEN "identity" ELSE "composed"],
                        group.max_angular_difference)
          ELSE FindLoop(subgrs, target, perm, n + 1, best,
                        best_angular_difference)

InitFind ==
  /\ fpc = "call"
  /\ \E n \in 1..MaxSubgroups :
       \E kind \in [1..n -> SubgroupKinds],
          delta \in [1..n -> AngularDifferences],
          correction \in [1..n -> Corrections] :
         subgroups =
           [i \in 1..n |->
              [order_z |-> kind[i].order_z, number |-> kind[i].number,
               bravais |-> kind[i].bravais,
               max_angular_difference |-> delta[i],
               correction |-> correction[i]]]
  /\ target_bravais_t \in {"mP", "mC"}
  /\ best_subgroup = NothingFound
  /\ SymIdle
  /\ MatchIdle
  /\ ReindexIdle
  /\ SelectorIdle
  /\ ProcIdle

\* find_matching_symmetry(unit_cell, target_space_group), lines 261-360.
find_matching_symmetry ==
  /\ fpc = "call"
  /\ \E perm \in SortPermutations([i \in 1..Len(subgroups) |->
                                      SortValue(subgroups[i])]) :
       best_subgroup' = FindLoop(subgroups, target_bravais_t, perm, 1,
                                 NoSubgroup, Unreached)
  /\ fpc' = IF best_subgroup'.raised = "none" THEN "returned" ELSE "raised"
  /\ UNCHANGED <<subgroups, target_bravais_t>>
  /\ UNCHANGED <<symVars, matchVars, reindexVars, selectorVars, procVars>>

NextFind == find_matching_symmetry

SpecFind == InitFind /\ [][NextFind]_vars

(***************************************************************************)
(* reflection_table_selector: a column, a comparison operator and a value, *)
(* called on a reflection table.  Intensities, variances and the value are *)
(* integers, and the variances above zero are perfect squares, so that     *)
(* I / sqrt(V) is an exact quotient.                                       *)
(***************************************************************************)
MaxRows == 2

\* The rows a table is drawn from: summation and profile-fitted intensity
\* and variance, and (as one number) the calculated position.
ReflectionKinds ==
  << [sum_value |-> 3, sum_variance |-> 1, prf_value |-> 3, prf_variance |-> 0,
      xyzcal |-> 0],
     [sum_value |-> 2, sum_variance |-> 4, prf_value |-> -2, prf_variance |-> 1,
      xyzcal |-> 1],
     [sum_value |-> 3, sum_variance |-> 0, prf_value |-> 2, prf_variance |-> 4,
      xyzcal |-> 0],
     [sum_value |-> -2, sum_variance |-> 1, prf_value |-> 3,
      prf_variance |-> -1, xyzcal |-> 1],
     [sum_value |-> 3, sum_variance |-> -1, prf_value |-> 3, prf_variance |-> 1,
      xyzcal |-> 0] >>

\* The columns a selector is made for: the two derived ones, a column of
\* doubles and a column of vectors.
Columns == {"intensity.sum.i_over_sigma", "intensity.prf.i_over_sigma",
            "intensity.sum.value", "xyzcal.px"}

\* The comparison operators of __init__, lines 1037-1048.
Operators == {"<", "<=", "==", "!=", ">=", ">"}

Values == {1, 3}

\* flex.sqrt(V) for a perfect square V > 0
Sqrt(V) == CHOOSE r \in 1..V : r * r = V

\* self.op(x, y) for numbers, x a quotient <<numerator, denominator>> with
\* a positive denominator.
Compare(op, x, y) ==
  CASE op = "<" -> x[1] < y * x[2]
    [] op = "<=" -> x[1] <= y * x[2]
    [] op = "==" -> x[1] = y * x[2]
    [] op = "!=" -> x[1] # y * x[2]
    [] op = ">=" -> x[1] >= y * x[2]
    [] op = ">" -> x[1] > y * x[2]

\* The entries of mask2 are written to the leading entries of mask1.
SetLeading(mask1, indices, mask2) ==
  [i \in 1..Len(mask1) |-> IF i <= Len(mask2) THEN mask2[i] ELSE mask1[i]]

\* mask1.set_selected(indices, mask2)
SetSelected(mask1, indices, mask2) ==
  [i \in 1..Len(mask1) |->
     IF \E k \in 1..Len(indices) : indices[k] = i
     THEN mask2[CHOOSE k \in 1..Len(indices) : indices[k] = i]
     ELSE mask1[i]]

\* Lines 1091-1104: the rows with a positive variance, and I / sqrt(V) on
\* them.
IOverSigma(I, V, op, value) ==
  LET mask1 == [i \in 1..Len(V) |-> V[i] > 0]
      Isel == SelectMask(I, mask1)
      Vsel == SelectMask(V, mask1)
      data == [k \in 1..Len(Isel) |-> <<Isel[k], Sqrt(Vsel[k])>>]
      mask2 == [k \in 1..Len(data) |-> Compare(op, data[k], value)]
      indices == SelectMask([i \in 1..Len(mask1) |-> i], mask1)
  IN [raised |-> "none", mask |-> SetSelected(mask1, indices, mask2)]

\* reflection_table_selector.__call__(reflections), lines 1081-1133.
Call(rows, sel) ==
  IF sel.column = "intensity.sum.i_over_sigma"
  THEN IOverSigma([i \in 1..Len(rows) |-> rows[i].sum_value],
                  [i \in 1..Len(rows) |-> rows[i].sum_variance],
                  sel.op, sel.value)
  ELSE IF sel.column = "intensity.prf.i_over_sigma"
  THEN IOverSigma([i \in 1..Len(rows) |-> rows[i].prf_value],
                  [i \in 1..Len(rows) |-> rows[i].prf_variance],
                  sel.op, sel.value)
  ELSE IF sel.column = "xyzcal.px"
  THEN [raised |-> "RuntimeError", mask |-> <<>>]
  ELSE [raised |-> "none",
        mask |-> [i \in 1..Len(rows) |->
                    Compare(sel.op, <<rows[i].sum_value, 1>>, sel.value)]]

InitSelector ==
  /\ spc = "call"
  /\ \E n \in 0..MaxRows :
       \E kind \in [1..n -> 1..Len(ReflectionKinds)] :
         reflections = [i \in 1..n |-> ReflectionKinds[kind[i]]]
  /\ selector \in [column : Columns, op : Operators, value : Values]
  /\ selected = NothingSelected
  /\ SymIdle
  /\ MatchIdle
  /\ ReindexIdle
  /\ FindIdle
  /\ ProcIdle

\* selector(reflections)
call_selector ==
  /\ spc = "call"
  /\ selected' = Call(reflections, selector)
  /\ spc' = IF selected'.raised = "none" THEN "returned" ELSE "raised"
  /\ UNCHANGED <<reflections, selector>>
  /\ UNCHANGED <<symVars, matchVars, reindexVars, findVars, procVars>>

NextSelector == call_selector

SpecSelector == InitSelector /\ [][NextSelector]_vars

(***************************************************************************)
(* run_process of util/procrunner.py: the calling thread, the two reader   *)
(* threads of _NonBlockingStreamReader, the child process and the clock.   *)
(* stdin is None, debug is off, and no KeyboardInterrupt arrives.  The     *)
(* waits (poll(0.5), sleep) take time and change nothing else; the clock   *)
(* is read in the loop condition only.                                     *)
(***************************************************************************)
MaxChars == 2

\* What the child writes to a stream: letters and newlines.
Chars == {"a", "\n"}
Texts(max) == UNION {[1..n -> Chars] : n \in 0..max}

SIGTERM == 0 - 15
SIGKILL == 0 - 9

\* The statuses the child can exit with: 0 on its own, and -N when signal N
\* that was sent ended it.
ExitStatuses(sent) ==
  {0} \cup {SIGTERM : n \in {m \in 1..Len(sent) : sent[m] = "terminate"}}
      \cup {SIGKILL : n \in {m \in 1..Len(sent) : sent[m] = "kill"}}

\* The read end of a stream is at end of file: the child exited and no
\* other process holds the write end.
EOF(s) == child.state = "exited" /\ ~child.holds

\* p.poll(): the exit status once the child has exited, None before.
PollResult == IF child.state = "exited" THEN child.status ELSE None

\* The call gives up without an exception.
GivesUp(code) == FALSE

\* if p.returncode is None: raise RuntimeError("Process won't terminate")
WontTerminate(code) == code = None

\* _LineAggregator.add(char) and flush(): the buffer afterwards.
LaAdd(buffer, char) == IF char = "\n" THEN <<>> ELSE Append(buffer, char)

\* A line handed to the callback, and whether get_output had already
\* returned (self._closed) when it was handed over.
Callback(s, line) == [line |-> line, closed |-> reader[s].closed]

InitProc ==
  /\ main = At("start", "none")
  /\ \E holds \in BOOLEAN :
       child = [state |-> "unstarted", status |-> None, holds |-> holds]
  /\ returncode = None
  /\ \E out \in Texts(MaxChars), err \in {<<>>, <<"a">>} :
       stream = [s \in Streams |->
                   [towrite |-> IF s = "stdout" THEN out ELSE err,
                    pipe |-> <<>>]]
  /\ reader = [s \in Streams |-> NewReader]
  /\ callbacks = [s \in Streams |-> <<>>]
  /\ notified = [s \in Streams |-> FALSE]
  /\ thread_pipe_pool = <<>>
  /\ timeout \in BOOLEAN
  /\ expired = FALSE
  /\ timeout_encountered = FALSE
  /\ signals = <<>>
  /\ run_result = NoResult
  /\ loop_end = NoLoopEnd
  /\ SymIdle
  /\ MatchIdle
  /\ ReindexIdle
  /\ FindIdle
  /\ SelectorIdle

notProc == <<symVars, matchVars, reindexVars, findVars, selectorVars>>

\* Lines 175-217: Popen, the two readers and their threads, the pool of
\* notification pipes.
Start ==
  /\ main = At("start", "none")
  /\ child' = [child EXCEPT !.state = "running"]
  /\ reader' = [s \in Streams |-> [reader[s] EXCEPT !.thread = "run"]]
  /\ thread_pipe_pool' = <<"stdout", "stderr">>
  /\ timeout_encountered' = FALSE
  /\ main' = At("test", "none")
  /\ UNCHANGED <<returncode, stream, callbacks, notified, timeout, expired,
                 signals, run_result, loop_end>>
  /\ UNCHANGED notProc

\* Lines 219-220, the loop condition.
LoopTest ==
  /\ main = At("test", "none")
  /\ IF returncode = None /\ (~timeout \/ ~expired)
     THEN /\ main' = At("wait", "none")
          /\ loop_end' = loop_end
     ELSE /\ main' = At("after", "none")
          /\ loop_end' = [left |-> TRUE,
                          running |-> child.state = "running",
                          returncode |-> returncode]
  /\ UNCHANGED <<child, returncode, stream, reader, callbacks, notified,
                 thread_pipe_pool, timeout, expired, timeout_encountered,
                 signals, run_result>>
  /\ UNCHANGED notProc

\* Lines 225-236: wait for the first stream of the pool to be notified, at
\* most 0.5 s, and take it out of the pool if it was.
Wait ==
  /\ main = At("wait", "none")
  /\ thread_pipe_pool' =
       IF thread_pipe_pool # <<>> /\ notified[Head(thread_pipe_pool)]
       THEN Tail(thread_pipe_pool) ELSE thread_pipe_pool
  /\ main' = At("poll", "none")
  /\ UNCHANGED <<child, returncode, stream, reader, callbacks, notified,
                 timeout, expired, timeout_encountered, signals, run_result,
                 loop_end>>
  /\ UNCHANGED notProc

\* Line 243: p.poll()
Poll ==
  /\ main = At("poll", "none")
  /\ returncode' = PollResult
  /\ main' = At("test", "none")
  /\ UNCHANGED <<child, stream, reader, callbacks, notified,
                 thread_pipe_pool, timeout, expired, timeout_encountered,
                 signals, run_result, loop_end>>
  /\ UNCHANGED notProc

\* Lines 245-252: the timeout condition and p.terminate()
Terminate ==
  /\ main = At("after", "none")
  /\ IF returncode = None
     THEN /\ timeout_encountered' = TRUE
          /\ signals' = Append(signals, "terminate")
          /\ main' = At("terminated", "none")
     ELSE /\ timeout_encountered' = timeout_encountered
          /\ signals' = signals
          /\ main' = At("kill", "none")
  /\ UNCHANGED <<child, returncode, stream, reader, callbacks, notified,
                 thread_pipe_pool, timeout, expired, run_result, loop_end>>
  /\ UNCHANGED notProc

\* Lines 253-257: the wait after terminate, then p.poll()
TerminateWait ==
  /\ main = At("terminated", "none")
  /\ returncode' = PollResult
  /\ main' = At("kill", "none")
  /\ UNCHANGED <<child, stream, reader, callbacks, notified,
                 thread_pipe_pool, timeout, expired, timeout_encountered,
                 signals, run_result, loop_end>>
  /\ UNCHANGED notProc

\* Lines 259-262: p.kill() if the child was still running at the last poll
Kill ==
  /\ main = At("kill", "none")
  /\ IF returncode = None
     THEN /\ signals' = Append(signals, "kill")
          /\ main' = At("killed", "none")
     ELSE /\ signals' = signals
          /\ main' = At("give_up", "none")
  /\ UNCHANGED <<child, returncode, stream, reader, callbacks, notified,
                 thread_pipe_pool, timeout, expired, timeout_encountered,
                 run_result, loop_end>>
  /\ UNCHANGED notProc

\* Lines 263-267: the wait after kill, then p.poll()
KillWait ==
  /\ main = At("killed", "none")
  /\ returncode' = PollResult
  /\ main' = At("give_up", "none")
  /\ UNCHANGED <<child, stream, reader, callbacks, notified,
                 thread_pipe_pool, timeout, expired, timeout_encountered,
                 signals, run_result, loop_end>>
  /\ UNCHANGED notProc

\* Lines 269-279: raise if the child is still running
GiveUp ==
  /\ main = At("give_up", "none")
  /\ IF WontTerminate(returncode)
     THEN /\ main' = At("raised", "none")
          /\ run_result' = [kind |-> "raised",
                            error |-> "Process won't terminate"]
     ELSE /\ main' = At("closing", "stdout")
          /\ run_result' = run_result
  /\ UNCHANGED <<child, returncode, stream, reader, callbacks, notified,
                 thread_pipe_pool, timeout, expired, timeout_encountered,
                 signals, loop_end>>
  /\ UNCHANGED notProc

\* get_output, line 88: self._closing = True
GetOutputClosing(s) ==
  /\ main = At("closing", s)
  /\ reader' = [reader EXCEPT ![s].closing = TRUE]
  /\ main' = At("finished", s)
  /\ UNCHANGED <<child, returncode, stream, callbacks, notified,
                 thread_pipe_pool, timeout, expired, timeout_encountered,
                 signals, run_result, loop_end>>
  /\ UNCHANGED notProc

\* get_output, line 89: if not self.has_finished()
GetOutputFinished(s) ==
  /\ main = At("finished", s)
  /\ main' = IF reader[s].terminated THEN At("close", s) ELSE At("join", s)
  /\ UNCHANGED <<child, returncode, stream, reader, callbacks, notified,
                 thread_pipe_pool, timeout, expired, timeout_encountered,
                 signals, run_result, loop_end>>
  /\ UNCHANGED notProc

\* get_output, lines 93-99: self._thread.join(), which returns once the
\* thread has ended, and the second has_finished()
GetOutputJoin(s) ==
  /\ main = At("join", s)
  /\ reader[s].thread = "dead"
  /\ IF reader[s].terminated
     THEN /\ main' = At("close", s)
          /\ run_result' = run_result
     ELSE /\ main' = At("raised", s)
          /\ run_result' = [kind |-> "raised",
                            error |-> "thread did not terminate"]
  /\ UNCHANGED <<child, returncode, stream, reader, callbacks, notified,
                 thread_pipe_pool, timeout, expired, timeout_encountered,
                 signals, loop_end>>
  /\ UNCHANGED notProc

\* get_output, lines 100-105, and the return to line 282 or 283
GetOutputClose(s) ==
  /\ main = At("close", s)
  /\ IF reader[s].closed
     THEN /\ main' = At("raised", s)
          /\ run_result' = [kind |-> "raised",
                            error |-> "streamreader double-closed"]
          /\ reader' = reader
     ELSE /\ reader' = [reader EXCEPT ![s].closed = TRUE,
                                      ![s].data = reader[s].buffer]
          /\ main' = IF s = "stdout" THEN At("closing", "stderr")
                     ELSE At("return", "none")
          /\ run_result' = run_result
  /\ UNCHANGED <<child, returncode, stream, callbacks, notified,
                 thread_pipe_pool, timeout, expired, timeout_encountered,
                 signals, loop_end>>
  /\ UNCHANGED notProc

\* Lines 283-292: the result dictionary
Return ==
  /\ main = At("return", "none")
  /\ run_result' = [kind |-> "returned",
                    exitcode |-> returncode,
                    stdout |-> reader["stdout"].data,
                    stderr |-> reader["stderr"].data,
                    timeout |-> timeout_encountered]
  /\ main' = At("returned", "none")
  /\ UNCHANGED <<child, returncode, stream, reader, callbacks, notified,
                 thread_pipe_pool, timeout, expired, timeout_encountered,
                 signals, loop_end>>
  /\ UNCHANGED notProc

\* The reader thread, lines 62-69: one turn of the loop that ends it or
\* reads a character.  select reports the stream readable when the pipe
\* holds data or is at end of file; read(1) then returns a character, which
\* goes to the buffer and to the line aggregator, or '' at end of file;
\* when select times out, the loop is left if _closing is set.
ThreadRead(s) ==
  /\ reader[s].thread = "run"
  /\ IF stream[s].pipe # <<>>
     THEN LET char == Head(stream[s].pipe) IN
          /\ stream' = [stream EXCEPT ![s].pipe = Tail(stream[s].pipe)]
          /\ reader' = [reader EXCEPT
                          ![s].buffer = Append(reader[s].buffer, char),
                          ![s].la = LaAdd(reader[s].la, char)]
          /\ callbacks' =
               IF char = "\n"
               THEN [callbacks EXCEPT
                       ![s] = Append(callbacks[s],
                                     Callback(s, reader[s].la))]
               ELSE callbacks
     ELSE /\ EOF(s) \/ reader[s].closing
          /\ reader' = [reader EXCEPT ![s].thread = "terminate"]
          /\ UNCHANGED <<stream, callbacks>>
  /\ UNCHANGED <<main, child, returncode, notified, thread_pipe_pool,
                 timeout, expired, timeout_encountered, signals, run_result,
                 loop_end>>
  /\ UNCHANGED notProc

\* The reader thread, line 70: self._terminated = True
ThreadTerminated(s) ==
  /\ reader[s].thread = "terminate"
  /\ reader' = [reader EXCEPT ![s].terminated = TRUE, ![s].thread = "flush"]
  /\ UNCHANGED <<main, child, returncode, stream, callbacks, notified,
                 thread_pipe_pool, timeout, expired, timeout_encountered,
                 signals, run_result, loop_end>>
  /\ UNCHANGED notProc

\* The reader thread, line 71: la.flush()
ThreadFlush(s) ==
  /\ reader[s].thread = "flush"
  /\ callbacks' =
       IF reader[s].la # <<>>
       THEN [callbacks EXCEPT
               ![s] = Append(callbacks[s], Callback(s, reader[s].la))]
       ELSE callbacks
  /\ reader' = [reader EXCEPT ![s].la = <<>>, ![s].thread = "notify"]
  /\ UNCHANGED <<main, child, returncode, stream, notified,
                 thread_pipe_pool, timeout, expired, timeout_encountered,
                 signals, run_result, loop_end>>
  /\ UNCHANGED notProc

\* The reader thread, lines 74-75: notify(), and the thread ends
ThreadNotify(s) ==
  /\ reader[s].thread = "notify"
  /\ notified' = [notified EXCEPT ![s] = TRUE]
  /\ reader' = [reader EXCEPT ![s].thread = "dead"]
  /\ UNCHANGED <<main, child, returncode, stream, callbacks,
                 thread_pipe_pool, timeout, expired, timeout_encountered,
                 signals, run_result, loop_end>>
  /\ UNCHANGED notProc

\* The child writes the next character of a stream.
ChildWrite(s) ==
  /\ child.state = "running"
  /\ stream[s].towrite # <<>>
  /\ stream' = [stream EXCEPT
                  ![s].pipe = Append(stream[s].pipe, Head(stream[s].towrite)),
                  ![s].towrite = Tail(stream[s].towrite)]
  /\ UNCHANGED <<main, child, returncode, reader, callbacks, notified,
                 thread_pipe_pool, timeout, expired, timeout_encountered,
                 signals, run_result, loop_end>>
  /\ UNCHANGED notProc

\* The child exits, on its own or ended by a signal that was sent.
ChildExit ==
  /\ child.state = "running"
  /\ \E status \in ExitStatuses(signals) :
       child' = [child EXCEPT !.state = "exited", !.status = status]
  /\ UNCHANGED <<main, returncode, stream, reader, callbacks, notified,
                 thread_pipe_pool, timeout, expired, timeout_encountered,
                 signals, run_result, loop_end>>
  /\ UNCHANGED notProc

\* timeit.default_timer() reaches max_time while the loop is running.
Expire ==
  /\ timeout
  /\ ~expired
  /\ main.at \in {"test", "wait", "poll"}
  /\ expired' = TRUE
  /\ UNCHANGED <<main, child, returncode, stream, reader, callbacks,
                 notified, thread_pipe_pool, timeout, timeout_encountered,
                 signals, run_result, loop_end>>
  /\ UNCHANGED notProc

NextProc ==
  \/ Start
  \/ LoopTest
  \/ Wait
  \/ Poll
  \/ Terminate
  \/ TerminateWait
  \/ Kill
  \/ KillWait
  \/ GiveUp
  \/ \E s \in Streams : GetOutputClosing(s)
  \/ \E s \in Streams : GetOutputFinished(s)
  \/ \E s \in Streams : GetOutputJoin(s)
  \/ \E s \in Streams : GetOutputClose(s)
  \/ Return
  \/ \E s \in Streams : ThreadRead(s)
  \/ \E s \in Streams : ThreadTerminated(s)
  \/ \E s \in Streams : ThreadFlush(s)
  \/ \E s \in Streams : ThreadNotify(s)
  \/ \E s \in Streams : ChildWrite(s)
  \/ ChildExit
  \/ Expire

SpecProc == InitProc /\ [][NextProc]_vars

(***************************************************************************)
(* Claims about the correlation summary and the frame of refine_subgroup   *)
(* (under Spec) and about failed settings in identify_likely_solutions     *)
(* (under SpecPolicy).                                                     *)
(***************************************************************************)
\* The calls whose refinement returned on reflections with intensities.
Summarised(k) ==
  /\ completed[k].exc = NoExc
  /\ completed[k].run.fit.intensities

\* The operators with strictly more than ten contributing pairs.
Kept(fit) == {n \in 1..Len(fit.ccs) : fit.nrefs[n] > 10}

Least(S) == CHOOSE x \in S : \A y \in S : x <= y
Greatest(S) == CHOOSE x \in S : \A y \in S : y <= x

\* min_cc and max_cc are set together and in order.
CcPairOrdered(s) ==
  /\ s.min_cc = None <=> s.max_cc = None
  /\ s.min_cc # None => s.min_cc <= s.max_cc

\* C22 as stated: after a refinement that returned on reflections with
\* intensities, min_cc and max_cc are the least and the greatest
\* coefficient over exactly the operators with more than ten pairs, and
\* they are set together with min_cc <= max_cc.
C22_AsStated ==
  \A k \in 1..Len(completed) :
    /\ CcPairOrdered(completed[k].subgroup)
    /\ (Summarised(k) /\ Kept(completed[k].run.fit) # {}) =>
         LET fit == completed[k].run.fit
             over == {fit.ccs[n] : n \in Kept(fit)}
         IN /\ completed[k].subgroup.min_cc = Least(over)
            /\ completed[k].subgroup.max_cc = Greatest(over)

\* C22, amended: the first operator with more than ten pairs is left out
\* of the summary.  After a refinement that returned on reflections with
\* intensities, min_cc and max_cc are the least and the greatest
\* coefficient over the operators with strictly more than ten pairs other
\* than the first of them, and both are null when there is no such other
\* operator; they are set together, with min_cc <= max_cc, and both are
\* null after every other call.
C22_FirstRetainedSkipped ==
  \A k \in 1..Len(completed) :
    LET s == completed[k].subgroup
        fit == completed[k].run.fit
        others == Kept(fit) \ {Least(Kept(fit))}
        over == {fit.ccs[n] : n \in others}
    IN /\ CcPairOrdered(s)
       /\ ~Summarised(k) => s.min_cc = None /\ s.max_cc = None
       /\ Summarised(k) =>
            IF Kept(fit) = {} \/ others = {}
            THEN s.min_cc = None /\ s.max_cc = None
            ELSE s.min_cc = Least(over) /\ s.max_cc = Greatest(over)

\* A refinement returned with three operators over ten pairs: min_cc is
\* below max_cc, and max_cc below the first operator's coefficient.
C22_Witness ==
  \E k \in 1..Len(completed) :
    /\ Summarised(k)
    /\ Cardinality(Kept(completed[k].run.fit)) = 3
    /\ completed[k].subgroup.min_cc < completed[k].subgroup.max_cc
    /\ completed[k].subgroup.max_cc < completed[k].run.fit.ccs[1]

\* C27: on every way out of refine_subgroup (return, handled exception,
\* propagated exception) the tukey iqr_multiplier of params and the disabled
\* state of the root logger are what they were on entry.
C27_FrameRestored ==
  \A k \in 1..Len(completed) :
    /\ completed[k].iqr_exit = completed[k].iqr_entry
    /\ completed[k].logger_exit = completed[k].logger_entry

\* C28: identify_likely_solutions never recommends a setting whose
\* refinement failed: once it ran, every entry with a null rmsd has
\* recommended false.
C28_FailedNeverRecommended ==
  identify_ran =>
    \A j \in 1..Len(Lfat) :
      Lfat[j].rmsd = None => Lfat[j].recommended = "false"

(***************************************************************************)
(* Claims about the pairs of the two matchers (under SpecMatch).           *)
(***************************************************************************)
\* Row i of self and row j of other agree in the four key columns.
SameColumns(i, j) ==
  /\ self_rows[i].hkl = other_rows[j].hkl
  /\ self_rows[i].entering = other_rows[j].entering
  /\ self_rows[i].id = other_rows[j].id
  /\ self_rows[i].panel = other_rows[j].panel

\* The pairs that are left after the distance filter.
AcceptedSind == SelectMask(match.sind, match.mask)

\* C24: every (self, other) pair of match_with_reference and of
\* match_with_reference_without_copying_columns, before and after the
\* distance filter, has the same Miller index, entering flag, id and panel
\* on both sides, and the assertions after the pairing never fail.
C24_PairsShareKey ==
  /\ mpc # "raised"
  /\ match.raised = "none"
  /\ \A n \in PairIdx : SameColumns(match.sind[n], match.oind[n])
  /\ Len(AcceptedSind) = Len(match.other_matched)
  /\ \A n \in 1..Len(AcceptedSind) :
       SameColumns(AcceptedSind[n], match.other_matched[n])

\* Both tables hold rows of the two keys, which differ in the entering
\* flag only, and the call paired a row of each key; one of the two pairs
\* was taken out by the distance filter.
C24_Witness ==
  /\ mpc = "matched"
  /\ \E n1, n2 \in PairIdx :
       /\ self_rows[match.sind[n1]].entering # self_rows[match.sind[n2]].entering
       /\ match.mask[n1]
       /\ ~match.mask[n2]

\* C25: the pairing is one-to-one for any two tables, key collisions of
\* several self rows with several other rows included: no self index and
\* no other index occurs twice, the two index arrays have the same length,
\* and the pairs are in ascending order of self index.
C25_OneToOne ==
  mpc = "matched" =>
    /\ Len(match.sind) = Len(match.oind)
    /\ \A n1, n2 \in PairIdx :
         n1 < n2 =>
           /\ match.sind[n1] < match.sind[n2]
           /\ match.oind[n1] # match.oind[n2]
    /\ \A n \in PairIdx :
         /\ match.sind[n] \in SelfIdx
         /\ match.oind[n] \in OtherIdx

\* Two self rows and two other rows share one key, and the call made two
\* pairs of them, the first self row with the second other row.
C25_Witness ==
  /\ mpc = "matched"
  /\ Len(self_rows) = 2
  /\ Len(other_rows) = 2
  /\ \A i \in SelfIdx, j \in OtherIdx : SameKey(i, j)
  /\ match.sind = <<1, 2>>
  /\ match.oind = <<2, 1>>

\* The self table as it was before the call: no row carried a flag.
SelfBefore == [i \in SelfIdx |-> [self_rows[i] EXCEPT !.flags = {}]]

\* C26: what match_with_reference returns and sets (the mask, other_matched,
\* other_unmatched and the flags of self) is a function of the two tables
\* alone: every order in which the key lookup and the per-key dict can be
\* iterated gives the same.
C26_OrderIndependent ==
  mpc = "matched" =>
    \A korder \in Perms({Key(SelfBefore[i]) : i \in SelfIdx}),
       jorder \in Perms(OtherIdx) :
      LET m == Returned(SelfBefore, other_rows,
                        MatchWithReference(SelfBefore, other_rows, korder,
                                           jorder), match.copying)
      IN /\ m.raised = "none"
         /\ m.mask2 = match.mask2
         /\ m.other_matched = match.other_matched
         /\ m.other_matched_rows = match.other_matched_rows
         /\ m.other_unmatched = match.other_unmatched
         /\ m.flags = match.flags

\* The call made two pairs, of two keys or out of a per-key dict of two
\* entries: there was more than one order to iterate in.
C26_Witness ==
  /\ mpc = "matched"
  /\ match.copying
  /\ Len(match.sind) = 2
  /\ \/ Key(self_rows[1]) # Key(self_rows[2])
     \/ match.oind = <<2, 1>>

(***************************************************************************)
(* Claims about find_matching_symmetry (under SpecFind).                   *)
(***************************************************************************)
\* The enumerated subgroups that have the target's Bravais type.
OfTargetType ==
  {i \in 1..Len(subgroups) : subgroups[i].bravais = target_bravais_t}

\* Where subgroup i stands in the descending order that was iterated.
Position(i) ==
  CHOOSE n \in 1..Len(best_subgroup.perm) : best_subgroup.perm[n] = i

\* C21: find_matching_symmetry returns null exactly when no enumerated
\* subgroup has the target's Bravais type.  Otherwise what it returns is one
\* subgroup of that type whose max_angular_difference is not above that of
\* any other subgroup of that type, and among those of equal, least
\* difference the one that comes first in the descending order of
\* group_order * 1000 + space_group_number.  The call does not return only
\* when the operator correction of a subgroup of that type raised an
\* unexpected RuntimeError.
C21_BestOfTargetType ==
  /\ fpc = "returned" =>
       LET best == best_subgroup.best IN
       /\ best = NoSubgroup <=> OfTargetType = {}
       /\ OfTargetType # {} =>
            /\ best.i_subgr \in OfTargetType
            /\ best.max_angular_difference =
                 subgroups[best.i_subgr].max_angular_difference
            /\ \A i \in OfTargetType :
                 /\ best.max_angular_difference <=
                      subgroups[i].max_angular_difference
                 /\ subgroups[i].max_angular_difference =
                      best.max_angular_difference =>
                      /\ SortValue(subgroups[i]) <=
                           SortValue(subgroups[best.i_subgr])
                      /\ Position(best.i_subgr) <= Position(i)
  /\ fpc = "raised" =>
       \E i \in OfTargetType : subgroups[i].correction = "error"

\* Two subgroups of the target's type with the same angular difference:
\* the one enumerated second has the higher sort value and was returned.
C21_Witness ==
  /\ fpc = "returned"
  /\ Len(subgroups) = 2
  /\ OfTargetType = {1, 2}
  /\ subgroups[1].max_angular_difference =
       subgroups[2].max_angular_difference
  /\ SortValue(subgroups[1]) < SortValue(subgroups[2])
  /\ best_subgroup.best.i_subgr = 2

(***************************************************************************)
(* Claims about reflection_table_selector (under SpecSelector).            *)
(***************************************************************************)
Derived ==
  selector.column \in {"intensity.sum.i_over_sigma",
                       "intensity.prf.i_over_sigma"}

\* The intensity and the variance the selector's derived column is made of.
Intensity(i) ==
  IF selector.column = "intensity.sum.i_over_sigma"
  THEN reflections[i].sum_value ELSE reflections[i].prf_value
Variance(i) ==
  IF selector.column = "intensity.sum.i_over_sigma"
  THEN reflections[i].sum_variance ELSE reflections[i].prf_variance

\* I / sigma stands in the selector's relation to the value, sigma > 0 being
\* the square root of the variance.
Satisfies(I, sigma, value) ==
  \/ selector.op = "<" /\ I < value * sigma
  \/ selector.op = "<=" /\ I <= value * sigma
  \/ selector.op = "==" /\ I = value * sigma
  \/ selector.op = "!=" /\ I # value * sigma
  \/ selector.op = ">=" /\ I >= value * sigma
  \/ selector.op = ">" /\ I > value * sigma

Sent(signal) == \E n \in 1..Len(signals) : signals[n] = signal

\* What run_process does about a child that outlives the deadline, apart
\* from the value of result['timeout']: a result is returned only for a
\* child that has exited, with its exit status; terminate comes before
\* kill, and only after the loop was left at the deadline without an exit
\* status; it is sent whenever the child was running when the loop was
\* left; kill is sent only when the poll after the grace wait found no
\* exit status; the only exception is "Process won't terminate", after
\* both signals; and a result after a signal has timeout true.
TimeoutContract ==
  /\ main.at = "returned" =>
       /\ child.state = "exited"
       /\ run_result.exitcode # None
       /\ run_result.exitcode = child.status
  /\ signals \in {<<>>, <<"terminate">>, <<"terminate", "kill">>}
  /\ Sent("terminate") =>
       /\ timeout /\ expired /\ timeout_encountered
       /\ loop_end.left /\ loop_end.returncode = None
  /\ (loop_end.left /\ loop_end.running /\ main.at # "after") =>
       Sent("terminate")
  /\ main.at = "killed" => returncode = None
  /\ run_result.kind = "raised" =>
       /\ run_result.error = "Process won't terminate"
       /\ signals = <<"terminate", "kill">>
       /\ returncode = None
  /\ (main.at = "returned" /\ Sent("terminate")) => run_result.timeout

\* C23 as stated: the contract above, and result['timeout'] is true iff
\* the child had not exited when the wait loop ended.  The loop condition
\* reads p.returncode, which is the outcome of the last p.poll(): a child
\* that exited after that poll (or before the first one) leaves the loop
\* at the deadline with timeout true.
C23_AsStated ==
  /\ TimeoutContract
  /\ main.at = "returned" => (run_result.timeout <=> loop_end.running)

\* C23: run_process never returns a result for a child that is still
\* running; after the deadline it sends terminate, then kill only if the
\* poll after the grace wait still found no exit status, and then returns
\* a result with timeout true and the exit status or raises "Process won't
\* terminate"; result['timeout'] is true iff p.returncode was still None
\* when the wait loop ended, which is the case whenever the child had not
\* exited then.
C23_TimeoutIsUnobservedExit ==
  /\ TimeoutContract
  /\ main.at = "returned" =>
       /\ run_result.timeout <=> loop_end.returncode = None
       /\ loop_end.running => run_result.timeout

\* The child outlived the deadline and terminate, was killed, and the
\* result carries timeout true and the status of the kill.
C23_Witness ==
  /\ main.at = "returned"
  /\ run_result.timeout
  /\ loop_end.running
  /\ signals = <<"terminate", "kill">>
  /\ run_result.exitcode = SIGKILL

Letters(text) == SelectSeq(text, LAMBDA c : c # "\n")

RECURSIVE Joined(_)
Joined(lines) ==
  IF lines = <<>> THEN <<>> ELSE Head(lines).line \o Joined(Tail(lines))

\* C30: once get_output has returned for a stream, every character read
\* from it has been handed to the line callback, the last line without a
\* newline included, and no callback for it happens afterwards.  The
\* reader thread sets _terminated before it calls la.flush(), and
\* get_output joins the thread only when _terminated is not set yet.
C30_DeliveredBeforeReturn ==
  \A s \in Streams :
    reader[s].closed =>
      /\ Joined(callbacks[s]) = Letters(reader[s].data)
      /\ \A n \in 1..Len(callbacks[s]) : ~callbacks[s][n].closed

====
